---- MODULE Spec2Model ----
(***************************************************************************)
(* The login page of the Ente Auth browser extension (login/App.tsx) as a  *)
(* state machine: the React state of the App component, its refs, the      *)
(* timers of the passkey polling loop and the asynchronous continuations   *)
(* of its step handlers that are waiting for a network answer.             *)
(*                                                                         *)
(* A handler is split at its awaits: the action that starts it records a   *)
(* continuation in `inflight` together with the values its closure         *)
(* captured at the render it was called from; the action that resumes it   *)
(* draws the answer of the server (or of the background script) with \E.   *)
(* Refs (.current) are read when the continuation runs, state values are   *)
(* the captured ones, as in React.                                         *)
(***************************************************************************)
EXTENDS Bags, FiniteSets, Integers, Sequences, TLC

\* ------------------------------------------------------------------ bounds
\* continuations of passkey status polls (timer ticks and manual checks)
\* that may be waiting for the server at the same time
MaxPolls == 2
\* the model's clock advances in steps of this many milliseconds
ClockStep == 150000
\* the ghost counters of consumed verification results saturate here
MaxCount == 2
\* email submissions (login attempts) in one life of the login page
MaxAttempts == 2
\* continuations of an abandoned attempt that may still be waiting when the
\* email form is submitted again
MaxLeftover == 0
MaxHandlers == 2

\* ------------------------------------------------------- program constants
PASSKEY_POLL_INTERVAL == 100
PASSKEY_TIMEOUT == 5 * 60 * 1000

\* ------------------------------------------------------------------ values
\* null / undefined of an object-valued state field or response field
NULL == [t |-> "null"]
\* error === null
NoError == "null"

STEPS == {"email", "password", "email-ott", "password-decrypt", "two-factor",
          "passkey-choice", "passkey", "success"}

\* the accounts known to the identity provider; an account is named by its
\* email address, and its owner's password is PasswordOf(account)
Accounts == {"a"}
PasswordOf(acct) == IF acct = "a" THEN "pa" ELSE "pb"
\* what the user may type into a password field
Passwords == {PasswordOf(x) : x \in Accounts} \cup {"wrong"}

\* --------------------------------------------- @shared/crypto (not in src)
Fail == [t |-> "fail"]
toB64(bytes) == [t |-> "b64", of |-> bytes]
toB64URLSafe(bytes) == [t |-> "b64url", of |-> bytes]
\* deterministic: the same password and salt give the same KEK
deriveKey(pw, kekSalt) == [t |-> "key", pw |-> pw, salt |-> kekSalt]
\* a secretbox holding `plain` under `key`
Box(plain, key) == [t |-> "box", plain |-> plain, key |-> key]
\* authenticated decryption: the plaintext bytes, or a failure on a wrong key
decryptBoxBytes(box, key) == IF box.key = key THEN box.plain ELSE Fail
\* a sealed box for the holder of the private key of `publicKey`
Sealed(plain, publicKey) == [t |-> "sealed", plain |-> plain, pk |-> publicKey]
PublicOf(privateKey) == [t |-> "pub", of |-> privateKey]
boxSealOpenBytes(sealed, publicKey, privateKey) ==
    IF sealed.pk = publicKey /\ PublicOf(privateKey) = publicKey
    THEN sealed.plain ELSE Fail
\* KDF subkey of the KEK bound to a context string
deriveSubKeyBytes(kek, ctx) == [t |-> "subkey", of |-> kek, ctx |-> ctx]

\* ----------------------------------------------- what the server holds
SaltOf(acct) == [t |-> "salt", of |-> acct]
KekOf(acct) == deriveKey(PasswordOf(acct), SaltOf(acct))
MasterBytesOf(acct) == [t |-> "mk", of |-> acct]
SecretBytesOf(acct) == [t |-> "sk", of |-> acct]
TokenBytesOf(acct) == [t |-> "tok", of |-> acct]
\* KeyAttributes (types.ts): the master key boxed under the KEK, the private
\* key boxed under the master key, the public key
KeyAttributesOf(acct) ==
    [t |-> "keyattrs",
     kekSalt |-> SaltOf(acct),
     encryptedKey |-> Box(MasterBytesOf(acct), KekOf(acct)),
     publicKey |-> PublicOf(toB64(SecretBytesOf(acct))),
     encryptedSecretKey |-> Box(SecretBytesOf(acct), toB64(MasterBytesOf(acct)))]
EncryptedTokenOf(acct) ==
    Sealed(TokenBytesOf(acct), PublicOf(toB64(SecretBytesOf(acct))))
PlainTokenOf(acct) == [t |-> "plaintoken", of |-> acct]
\* SRPAttributes (types.ts)
SRPAttributesOf(acct, mfa) ==
    [t |-> "srpattrs", srpUserID |-> acct, srpSalt |-> SaltOf(acct),
     kekSalt |-> SaltOf(acct), isEmailMFAEnabled |-> mfa]
TwoFactorSessionOf(acct) == [t |-> "totp-session", of |-> acct]
PasskeySessionOf(acct) == [t |-> "passkey-session", of |-> acct]

\* ------------------------------------------------ decryptMasterKey / Token
\* App.tsx decryptMasterKey: the master key as base64, or Fail
decryptMasterKey(keyAttrs, kek) ==
    LET bytes == decryptBoxBytes(keyAttrs.encryptedKey, kek)
    IN  IF bytes = Fail THEN Fail ELSE toB64(bytes)
\* App.tsx decryptToken: open the private key with the master key, then the
\* sealed token with the key pair
decryptToken(encryptedToken, keyAttrs, masterKey) ==
    LET privateKeyBytes == decryptBoxBytes(keyAttrs.encryptedSecretKey, masterKey)
    IN  IF privateKeyBytes = Fail THEN Fail
        ELSE LET tokenBytes == boxSealOpenBytes(encryptedToken, keyAttrs.publicKey,
                                                toB64(privateKeyBytes))
             IN  IF tokenBytes = Fail THEN Fail ELSE toB64URLSafe(tokenBytes)

\* ------------------------ background: ./auth and ./storage (not in src)
\* the session store: token, email, key attributes and master key
LoggedOut == [token |-> NULL, email |-> NULL, keyAttributes |-> NULL, masterKey |-> NULL]
\* login(token, keyAttributes, email): persists the identity
login(s, token, keyAttributes, mail) ==
    [s EXCEPT !.token = token, !.keyAttributes = keyAttributes,
              !.email = [t |-> "string", s |-> mail]]
\* authStorage.setMasterKey / getMasterKey
setMasterKey(s, masterKey) == [s EXCEPT !.masterKey = masterKey]
getMasterKey(s) == s.masterKey
\* lock(): discards only the master key
lock(s) == [s EXCEPT !.masterKey = NULL]
\* logout(): discards everything
logout(s) == LoggedOut
\* the master key unlock(password) recovers: the KEK is derived from the
\* password and the stored key attributes and opens the boxed master key;
\* Fail when nothing is stored to open or the KEK does not open it
unlockedKey(s, pw) ==
    IF s.keyAttributes = NULL THEN Fail
    ELSE decryptMasterKey(s.keyAttributes, deriveKey(pw, s.keyAttributes.kekSalt))
\* unlock(password): stores the recovered master key, or changes nothing
unlock(s, pw) ==
    IF unlockedKey(s, pw) = Fail THEN s ELSE setMasterKey(s, unlockedKey(s, pw))
\* getAuthState(): a read of the store
getAuthState(s) ==
    [isLoggedIn |-> s.token # NULL, isUnlocked |-> s.masterKey # NULL,
     email |-> s.email]
\* settingsStorage: the stored settings, and setSettings merging a partial
\* settings object into them
DefaultSettings == [lockOnBrowserClose |-> FALSE, serverUrl |-> "https://api.ente.io"]
setSettings(old, new) ==
    [k \in DOMAIN old \cup DOMAIN new |-> IF k \in DOMAIN new THEN new[k] ELSE old[k]]
\* the codes an account has on the server
CodesOf(acct) == [t |-> "codes", of |-> acct]

\* ------------------------------------------------------------------- state
VARIABLES
    step, email, password, error, loading,
    srpAttributes, twoFactorSessionID, passkeySessionID,
    stashedEncryptedToken, stashedKeyAttributes, stashedToken,
    \* the KEK stashed by the password step; stashedMasterKeyRef.current is
    \* copied from it by an effect after every render that changed it
    stashedMasterKey,
    pollIntervalRef, pollTimeoutRef, passkeyTabRef, passkeyCompleteRef,
    \* milliseconds until the timeout timer fires (0 when none is set)
    timeLeft,
    \* the browser's pending timers this component created and has neither
    \* cleared nor (for the one-shot timeout) seen fire: how many of each
    timers,
    \* bag of the continuations waiting for an answer
    inflight,
    \* history: the last event, the request it sent, the hand-off it made
    last,
    \* history of the current passkey verification (reset when it starts):
    \* the verified answers a timer tick consumed, and those a timer tick or
    \* a manual check consumed
    tickConsumed, consumed,
    \* history: the password step of the current attempt (since the last
    \* email submission) has run its exchange successfully
    passwordStepDone,
    \* history: the number of email submissions so far
    attempts,
    \* background script: the session store, the stored settings and the
    \* codes cache
    session, settings, codesCache,
    \* background script: bag of the message handlers and code syncs that are
    \* waiting at an await
    handlers,
    \* history: the last step of the background script, the message it
    \* belongs to, the sender (of a message just received) and the response
    \* (of a handler that just returned)
    bgLast,
    \* popup: the view shown, the list of codes, the id of the card whose exit
    \* animation runs, and the error shown
    view, codes, exitingPinId, popupError,
    \* popup: bag of its continuations waiting for an answer or a timer
    tasks,
    \* history: the number of GET_AUTH_STATE messages the popup has sent, the
    \* pin clicks on the list shown (pinned state before the click and how the
    \* UPDATE_CODE request ended), and the last step of the popup
    authSends, clicks, popLast

formVars == <<email, password>>
stashVars == <<srpAttributes, twoFactorSessionID, passkeySessionID,
               stashedEncryptedToken, stashedKeyAttributes, stashedToken,
               stashedMasterKey>>
pollVars == <<pollIntervalRef, pollTimeoutRef, passkeyTabRef, passkeyCompleteRef,
              timeLeft, timers>>
ghostVars == <<tickConsumed, consumed, passwordStepDone, attempts>>
loginVars == <<step, error, loading, formVars, stashVars, pollVars, inflight, last,
               ghostVars>>
bgVars == <<session, settings, codesCache, handlers, bgLast>>
popupVars == <<view, codes, exitingPinId, popupError, tasks, authSends, clicks,
               popLast>>
vars == <<loginVars, bgVars, popupVars>>

\* the stashedMasterKeyRef of App.tsx, kept in sync with the state
stashedMasterKeyRef == stashedMasterKey

Init ==
    /\ step = "email"
    /\ email = ""
    /\ password = ""
    /\ error = NoError
    /\ loading = FALSE
    /\ srpAttributes = NULL
    /\ twoFactorSessionID = NULL
    /\ passkeySessionID = NULL
    /\ stashedEncryptedToken = NULL
    /\ stashedKeyAttributes = NULL
    /\ stashedToken = NULL
    /\ stashedMasterKey = NULL
    /\ pollIntervalRef = NULL
    /\ pollTimeoutRef = FALSE
    /\ passkeyTabRef = FALSE
    /\ passkeyCompleteRef = FALSE
    /\ timeLeft = 0
    /\ timers = [interval |-> 0, timeout |-> 0]
    /\ inflight = EmptyBag
    /\ last = [op |-> "init", out |-> "none", req |-> NULL, handoff |-> NULL]
    /\ tickConsumed = 0
    /\ consumed = 0
    /\ passwordStepDone = FALSE
    /\ attempts = 0
    /\ session = LoggedOut
    /\ settings = DefaultSettings
    /\ codesCache = NULL
    /\ handlers = EmptyBag
    /\ bgLast = [op |-> "init", msg |-> NULL, sender |-> NULL, response |-> NULL]
    /\ view = "loading"
    /\ codes = {}
    /\ exitingPinId = NULL
    /\ popupError = NULL
    \* the mount effect has called initializePopup, which awaits the storage
    /\ tasks = SetToBag({[kind |-> "initializePopup"]})
    /\ authSends = 0
    /\ clicks = <<>>
    /\ popLast = [op |-> "init", answer |-> NULL, out |-> "none"]

\* ----------------------------------------------------------------- helpers
Min(a, b) == IF a < b THEN a ELSE b
Max(a, b) == IF a > b THEN a ELSE b
Bump(n) == Min(n + 1, MaxCount)
Put(c) == inflight (+) SetToBag({c})
Take(c) == inflight (-) SetToBag({c})
Waiting(c) == BagIn(c, inflight)
Pending == BagToSet(inflight)
\* the record of an event: its name, how it ended, the request it sent to the
\* identity provider, the LOGIN_COMPLETE message it sent, if any, and the
\* calls it made in their order (recorded for the events whose calls matter)
Event(op, out, req, handoff) ==
    [op |-> op, out |-> out, req |-> req, handoff |-> handoff, calls |-> <<>>]
\* the event e, having made the calls
Called(e, calls) == [e EXCEPT !.calls = calls]
\* call a comes before call b in the sequence of calls
Precedes(a, b, calls) ==
    \E i, j \in DOMAIN calls : i < j /\ calls[i] = a /\ calls[j] = b
\* a string as a value of a request field
Str(s) == [t |-> "string", s |-> s]
\* a request to the identity provider: endpoint and the fields of its URL
\* parameters and JSON body, with the step it was sent in
Request(endpoint, fields) ==
    [t |-> "request", endpoint |-> endpoint, fields |-> fields, step |-> step]

\* ------------------------------------------------------------- form inputs
\* the email input (disabled while loading)
TypeEmail(e) ==
    /\ step = "email" /\ ~loading
    /\ e # email
    /\ email' = e
    /\ last' = Event("TypeEmail", "ok", NULL, NULL)
    /\ UNCHANGED <<step, error, loading, password, stashVars, pollVars, inflight,
                   ghostVars>>

\* the password input of the password and password-decrypt steps
TypePassword(p) ==
    /\ step \in {"password", "password-decrypt"} /\ ~loading
    /\ p # password
    /\ password' = p
    /\ last' = Event("TypePassword", "ok", NULL, NULL)
    /\ UNCHANGED <<step, error, loading, email, stashVars, pollVars, inflight,
                   ghostVars>>

\* ------------------------------------------------------ handleEmailSubmit
\* submit of the email form: the button is disabled while loading or with an
\* empty email; the handler returns at once on an empty email
handleEmailSubmitUpTo(limit) ==
    /\ step = "email" /\ ~loading
    /\ email # ""
    /\ attempts < limit
    /\ error' = NoError
    /\ loading' = TRUE
    /\ inflight' = Put([kind |-> "email", pc |-> "attributes", email |-> email])
    /\ passwordStepDone' = FALSE
    /\ attempts' = attempts + 1
    /\ last' = Event("handleEmailSubmit", "sent",
                     Request("/users/srp/attributes", [email |-> Str(email)]), NULL)
    /\ UNCHANGED <<step, formVars, stashVars, pollVars, tickConsumed,
                   consumed>>

\* the submit of the first login attempt
handleEmailSubmit == handleEmailSubmitUpTo(1)
\* the submit of any login attempt, the ones after Back or Cancel included
handleEmailSubmitAgain ==
    /\ attempts > 0 => BagCardinality(inflight) <= MaxLeftover
    /\ handleEmailSubmitUpTo(MaxAttempts)

\* a password branch that requests an email code all the same
EmailAttributesPasswordWithOTT(c) ==
    /\ Waiting(c) /\ c.kind = "email" /\ c.pc = "attributes"
    /\ srpAttributes' = SRPAttributesOf(c.email, FALSE)
    /\ step' = "password"
    /\ loading' = FALSE
    /\ inflight' = Take(c)
    /\ last' = Event("handleEmailSubmit", "password",
                     Request("/users/ott", [email |-> Str(c.email), purpose |-> Str("login")]), NULL)
    /\ UNCHANGED <<error, formVars, twoFactorSessionID, passkeySessionID,
                   stashedEncryptedToken, stashedKeyAttributes, stashedToken,
                   stashedMasterKey, pollVars, ghostVars>>
\* getSRPAttributes answered with attributes that do not force email MFA
EmailAttributesPassword(c) ==
    /\ Waiting(c) /\ c.kind = "email" /\ c.pc = "attributes"
    /\ srpAttributes' = SRPAttributesOf(c.email, FALSE)
    /\ step' = "password"
    /\ loading' = FALSE
    /\ inflight' = Take(c)
    /\ last' = Event("handleEmailSubmit", "password", NULL, NULL)
    /\ UNCHANGED <<error, formVars, twoFactorSessionID, passkeySessionID,
                   stashedEncryptedToken, stashedKeyAttributes, stashedToken,
                   stashedMasterKey, pollVars, ghostVars>>

\* getSRPAttributes answered 404 (attrs undefined) or with email MFA forced:
\* the attributes, if any, are stashed and requestEmailOTT is sent
EmailAttributesOTT(c, attrs) ==
    /\ Waiting(c) /\ c.kind = "email" /\ c.pc = "attributes"
    /\ attrs \in {NULL, SRPAttributesOf(c.email, TRUE)}
    /\ srpAttributes' = IF attrs # NULL THEN attrs ELSE srpAttributes
    /\ inflight' = Take(c) (+) SetToBag({[c EXCEPT !.pc = "ott"]})
    /\ last' = Event("handleEmailSubmit", "requestEmailOTT",
                     Request("/users/ott", [email |-> Str(c.email), purpose |-> Str("login")]), NULL)
    /\ UNCHANGED <<step, error, loading, formVars, twoFactorSessionID,
                   passkeySessionID, stashedEncryptedToken, stashedKeyAttributes,
                   stashedToken, stashedMasterKey, pollVars, ghostVars>>

\* requestEmailOTT succeeded
EmailOTTRequested(c) ==
    /\ Waiting(c) /\ c.kind = "email" /\ c.pc = "ott"
    /\ step' = "email-ott"
    /\ loading' = FALSE
    /\ inflight' = Take(c)
    /\ last' = Event("handleEmailSubmit", "email-ott", NULL, NULL)
    /\ UNCHANGED <<error, formVars, stashVars, pollVars, ghostVars>>

\* a handleEmailSubmit whose catch sets no error
EmailSubmitFailedSilently(c, msg) ==
    /\ Waiting(c) /\ c.kind = "email"
    /\ \/ c.pc = "attributes" /\ msg = "Failed to get SRP attributes"
       \/ c.pc = "ott" /\ msg = "Failed to request email OTT"
    /\ loading' = FALSE
    /\ inflight' = Take(c)
    /\ last' = Event("handleEmailSubmit", "error", NULL, NULL)
    /\ UNCHANGED <<step, error, formVars, stashVars, pollVars, ghostVars>>
\* getSRPAttributes or requestEmailOTT threw: the catch sets the error, the
\* finally clears loading
EmailSubmitFailed(c, msg) ==
    /\ Waiting(c) /\ c.kind = "email"
    /\ \/ c.pc = "attributes" /\ msg = "Failed to get SRP attributes"
       \/ c.pc = "ott" /\ msg = "Failed to request email OTT"
    /\ error' = msg
    /\ loading' = FALSE
    /\ inflight' = Take(c)
    /\ last' = Event("handleEmailSubmit", "error", NULL, NULL)
    /\ UNCHANGED <<step, formVars, stashVars, pollVars, ghostVars>>

\* ------------------------------------------- passkey polling primitives
\* the pending timers after stopPasskeyPolling: clearInterval and
\* clearTimeout are called on a ref only if it holds an id, and each ends the
\* one timer the id names (for a timeout that is just firing, the firing does)
Cleared(tm) ==
    [interval |-> IF pollIntervalRef # NULL THEN tm.interval - 1 ELSE tm.interval,
     timeout |-> IF pollTimeoutRef THEN tm.timeout - 1 ELSE tm.timeout]

\* stopPasskeyPolling: clearInterval and clearTimeout, both refs nulled
stopPasskeyPolling ==
    /\ pollIntervalRef' = NULL
    /\ pollTimeoutRef' = FALSE
    /\ timeLeft' = 0
    /\ timers' = Cleared(timers)

\* closePasskeyTab: close() on the handle, if any; a throw of close() is
\* swallowed; the ref is nulled in both cases
closePasskeyTab ==
    /\ passkeyTabRef' = FALSE

\* the browser calls of startPasskeyVerification and of the
\* startPasskeyPolling it ends with, in their order
startPasskeyVerificationCalls ==
    <<"window.open", "stopPasskeyPolling", "setTimeout", "setInterval">>

\* a start that creates its timers without clearing the previous ones
startPasskeyVerificationKeepsTimers(sessionID, callerEmail) ==
    /\ error' = NoError
    /\ loading' = TRUE
    /\ passkeyCompleteRef' = FALSE
    /\ passkeyTabRef' = TRUE
    /\ pollTimeoutRef' = TRUE
    /\ timeLeft' = PASSKEY_TIMEOUT
    /\ pollIntervalRef' = [t |-> "interval", sid |-> sessionID, email |-> callerEmail]
    /\ timers' = [interval |-> timers.interval + 1, timeout |-> timers.timeout + 1]
    /\ tickConsumed' = 0
    /\ consumed' = 0
\* startPasskeyVerification(sessionID) with startPasskeyPolling(sessionID)
\* inlined: error cleared, loading set, guard reset, a tab opened and its
\* handle stored, the old timers cleared, a new timeout and a new interval
\* created; the interval callback closes over sessionID and the email of the
\* render the caller belongs to
startPasskeyVerification(sessionID, callerEmail) ==
    /\ error' = NoError
    /\ loading' = TRUE
    /\ passkeyCompleteRef' = FALSE
    /\ passkeyTabRef' = TRUE
    /\ pollTimeoutRef' = TRUE
    /\ timeLeft' = PASSKEY_TIMEOUT
    /\ pollIntervalRef' = [t |-> "interval", sid |-> sessionID, email |-> callerEmail]
    /\ timers' = [interval |-> Cleared(timers).interval + 1,
                  timeout |-> Cleared(timers).timeout + 1]
    /\ tickConsumed' = 0
    /\ consumed' = 0

\* an Error thrown inside a handler, with its message
Thrown(msg) == [t |-> "error", instanceofError |-> TRUE, message |-> msg]
\* a thrown value that is no instance of Error
ThrownValue == [t |-> "error", instanceofError |-> FALSE, message |-> ""]
\* what a failed decryption of @shared/crypto may throw: an Error carrying
\* the library's message, or a value that is no Error
DecryptionError == "DecryptionError"
CryptoThrows == {Thrown(DecryptionError), ThrownValue}
\* `e instanceof Error ? e.message : fallback` of the handlers' catch blocks
CatchMessage(e, fallback) == IF e.instanceofError THEN e.message ELSE fallback

\* the LOGIN_COMPLETE message completeLogin sends
LoginComplete(token, callerEmail, keyAttrs, masterKey) ==
    [t |-> "LOGIN_COMPLETE", token |-> token, email |-> callerEmail,
     keyAttributes |-> keyAttrs, masterKey |-> masterKey]

\* ---------------------------------------------------- handlePasswordSubmit
\* submit of the password form (button disabled while loading or with an empty
\* password); the handler returns at once without password or SRP attributes
handlePasswordSubmit ==
    /\ step = "password" /\ ~loading
    /\ password # "" /\ srpAttributes # NULL
    /\ error' = NoError
    /\ loading' = TRUE
    /\ inflight' = Put([kind |-> "password", pc |-> "yield", password |-> password,
                        srpAttributes |-> srpAttributes, email |-> email])
    /\ last' = Event("handlePasswordSubmit", "yield", NULL, NULL)
    /\ UNCHANGED <<step, formVars, stashVars, pollVars, ghostVars>>

\* verifySRP up to its first request: the login sub-key is derived from the
\* KEK, the SRP client computes A from a fresh ephemeral key
deriveSRPLoginSubKey(kek) == toB64(deriveSubKeyBytes(kek, "loginctx"))
computeA(srpUserID) == [t |-> "srpA", of |-> srpUserID]
computeM1(loginSubKey, srpUserID) ==
    [t |-> "srpM1", of |-> loginSubKey, id |-> srpUserID]
SrpSessionOf(srpUserID) == [t |-> "srp-session", of |-> srpUserID]
\* the JSON bodies verifySRP sends
CreateSessionBody(srpUserID, srpA) == [srpUserID |-> Str(srpUserID), srpA |-> srpA]
VerifySessionBody(sessionID, srpUserID, srpM1) ==
    [sessionID |-> sessionID, srpUserID |-> Str(srpUserID), srpM1 |-> srpM1]

\* a verifySRP that may send create-session again for the same submission
PasswordCreateSessionResent(c) ==
    /\ Waiting(c) /\ c.kind = "password" /\ c.pc \in {"yield", "create-session"}
    /\ LET kek == IF c.pc = "yield" THEN deriveKey(c.password, c.srpAttributes.kekSalt)
                  ELSE c.kek
           srpUserID == c.srpAttributes.srpUserID
       IN  /\ inflight' = Take(c) (+) SetToBag({[kind |-> "password",
                               pc |-> "create-session", kek |-> kek,
                               srpAttributes |-> c.srpAttributes, email |-> c.email]})
           /\ last' = Event("handlePasswordSubmit", "create-session",
                            Request("/users/srp/create-session",
                                    CreateSessionBody(srpUserID, computeA(srpUserID))),
                            NULL)
    /\ UNCHANGED <<step, error, loading, formVars, stashVars, pollVars, ghostVars>>
\* after the yield: deriveKey from the password and the SRP attributes'
\* salt, then verifySRP sends create-session
PasswordCreateSession(c) ==
    /\ Waiting(c) /\ c.kind = "password" /\ c.pc = "yield"
    /\ LET kek == deriveKey(c.password, c.srpAttributes.kekSalt)
           srpUserID == c.srpAttributes.srpUserID
       IN  /\ inflight' = Take(c) (+) SetToBag({[kind |-> "password",
                               pc |-> "create-session", kek |-> kek,
                               srpAttributes |-> c.srpAttributes, email |-> c.email]})
           /\ last' = Event("handlePasswordSubmit", "create-session",
                            Request("/users/srp/create-session",
                                    CreateSessionBody(srpUserID, computeA(srpUserID))),
                            NULL)
    /\ UNCHANGED <<step, error, loading, formVars, stashVars, pollVars, ghostVars>>

\* a verify-session that sends the KEK in place of the proof
PasswordVerifySessionWithKek(c) ==
    /\ Waiting(c) /\ c.kind = "password" /\ c.pc = "create-session"
    /\ LET srpUserID == c.srpAttributes.srpUserID
       IN  /\ inflight' = Take(c) (+) SetToBag({[c EXCEPT !.pc = "verify-session"]})
           /\ last' = Event("handlePasswordSubmit", "verify-session",
                            Request("/users/srp/verify-session",
                                    VerifySessionBody(SrpSessionOf(srpUserID),
                                                      srpUserID, c.kek)),
                            NULL)
    /\ UNCHANGED <<step, error, loading, formVars, stashVars, pollVars, ghostVars>>
\* create-session answered with sessionID and B: M1 is computed and sent
PasswordVerifySession(c) ==
    /\ Waiting(c) /\ c.kind = "password" /\ c.pc = "create-session"
    /\ LET srpUserID == c.srpAttributes.srpUserID
           srpM1 == computeM1(deriveSRPLoginSubKey(c.kek), srpUserID)
       IN  /\ inflight' = Take(c) (+) SetToBag({[c EXCEPT !.pc = "verify-session"]})
           /\ last' = Event("handlePasswordSubmit", "verify-session",
                            Request("/users/srp/verify-session",
                                    VerifySessionBody(SrpSessionOf(srpUserID),
                                                      srpUserID, srpM1)),
                            NULL)
    /\ UNCHANGED <<step, error, loading, formVars, stashVars, pollVars, ghostVars>>

\* the catch of handlePasswordSubmit: loading cleared, the message shown
PasswordCatch(c, msg, out) ==
    /\ error' = msg
    /\ loading' = FALSE
    /\ inflight' = Take(c)
    /\ last' = Event("handlePasswordSubmit", out, NULL, NULL)
    /\ UNCHANGED <<step, formVars, stashVars, pollVars, ghostVars>>

\* deriveKey threw, or create-session was not ok or the fetch failed
PasswordExchangeFailed(c, msg) ==
    /\ Waiting(c) /\ c.kind = "password"
    /\ \/ c.pc = "yield" /\ msg = "DerivationError"
       \/ c.pc = "create-session" /\ msg = "SRP create-session failed"
       \/ c.pc = "verify-session" /\ msg = "SRP verify-session failed"
    /\ PasswordCatch(c, msg, "error")

\* verifySRP without its branch for status 401
PasswordIncorrectGeneric(c) ==
    /\ Waiting(c) /\ c.kind = "password" /\ c.pc = "verify-session"
    /\ c.kek # KekOf(c.srpAttributes.srpUserID)
    /\ PasswordCatch(c, "SRP verify-session failed", "401")
\* verify-session answered 401: the server's verifier does not match the
\* proof, i.e. the KEK is not the account's
PasswordIncorrect(c) ==
    /\ Waiting(c) /\ c.kind = "password" /\ c.pc = "verify-session"
    /\ c.kek # KekOf(c.srpAttributes.srpUserID)
    /\ PasswordCatch(c, "Incorrect password", "401")

\* verify-session answered 200 but checkM2 threw on the server's proof
PasswordM2Mismatch(c) ==
    /\ Waiting(c) /\ c.kind = "password" /\ c.pc = "verify-session"
    /\ PasswordCatch(c, "server proof M2 mismatch", "M2-mismatch")

\* verify-session answered 200 with a passkey session and a two-factor
\* session: the KEK (and key attributes, if sent) are stashed, the user chooses
PasswordBothFactors(c, keyAttrs) ==
    /\ Waiting(c) /\ c.kind = "password" /\ c.pc = "verify-session"
    /\ c.kek = KekOf(c.srpAttributes.srpUserID)
    /\ keyAttrs \in {NULL, KeyAttributesOf(c.srpAttributes.srpUserID)}
    /\ stashedMasterKey' = c.kek
    /\ stashedKeyAttributes' = IF keyAttrs # NULL THEN keyAttrs ELSE stashedKeyAttributes
    /\ passkeySessionID' = PasskeySessionOf(c.srpAttributes.srpUserID)
    /\ twoFactorSessionID' = TwoFactorSessionOf(c.srpAttributes.srpUserID)
    /\ loading' = FALSE
    /\ step' = "passkey-choice"
    /\ inflight' = Take(c)
    /\ passwordStepDone' = TRUE
    /\ attempts' = attempts
    /\ last' = Event("handlePasswordSubmit", "passkey-choice", NULL, NULL)
    /\ UNCHANGED <<error, formVars, srpAttributes, stashedEncryptedToken, stashedToken,
                   pollVars, tickConsumed, consumed>>

\* a passkey-only branch that goes to the passkey step without starting the
\* verification
PasswordPasskeyOnlyNoStart(c, keyAttrs) ==
    /\ Waiting(c) /\ c.kind = "password" /\ c.pc = "verify-session"
    /\ c.kek = KekOf(c.srpAttributes.srpUserID)
    /\ keyAttrs \in {NULL, KeyAttributesOf(c.srpAttributes.srpUserID)}
    /\ stashedMasterKey' = c.kek
    /\ stashedKeyAttributes' = IF keyAttrs # NULL THEN keyAttrs ELSE stashedKeyAttributes
    /\ passkeySessionID' = PasskeySessionOf(c.srpAttributes.srpUserID)
    /\ step' = "passkey"
    /\ inflight' = Take(c)
    /\ passwordStepDone' = TRUE
    /\ attempts' = attempts
    /\ last' = Event("handlePasswordSubmit", "passkey", NULL, NULL)
    /\ UNCHANGED <<error, loading, formVars, srpAttributes, twoFactorSessionID,
                   stashedEncryptedToken, stashedToken, pollVars, tickConsumed,
                   consumed>>
\* 200 with a passkey session only: stash, go to passkey and start verification
PasswordPasskeyOnly(c, keyAttrs) ==
    /\ Waiting(c) /\ c.kind = "password" /\ c.pc = "verify-session"
    /\ c.kek = KekOf(c.srpAttributes.srpUserID)
    /\ keyAttrs \in {NULL, KeyAttributesOf(c.srpAttributes.srpUserID)}
    /\ stashedMasterKey' = c.kek
    /\ stashedKeyAttributes' = IF keyAttrs # NULL THEN keyAttrs ELSE stashedKeyAttributes
    /\ passkeySessionID' = PasskeySessionOf(c.srpAttributes.srpUserID)
    /\ step' = "passkey"
    /\ startPasskeyVerification(PasskeySessionOf(c.srpAttributes.srpUserID), c.email)
    /\ inflight' = Take(c)
    /\ passwordStepDone' = TRUE
    /\ attempts' = attempts
    /\ last' = Event("handlePasswordSubmit", "passkey", NULL, NULL)
    /\ UNCHANGED <<formVars, srpAttributes, twoFactorSessionID, stashedEncryptedToken,
                   stashedToken>>

\* a password step that goes to two-factor without stashing the KEK
PasswordTwoFactorOnlyNoStash(c, keyAttrs) ==
    /\ Waiting(c) /\ c.kind = "password" /\ c.pc = "verify-session"
    /\ c.kek = KekOf(c.srpAttributes.srpUserID)
    /\ keyAttrs \in {NULL, KeyAttributesOf(c.srpAttributes.srpUserID)}
    /\ stashedKeyAttributes' = IF keyAttrs # NULL THEN keyAttrs ELSE stashedKeyAttributes
    /\ twoFactorSessionID' = TwoFactorSessionOf(c.srpAttributes.srpUserID)
    /\ loading' = FALSE
    /\ step' = "two-factor"
    /\ inflight' = Take(c)
    /\ passwordStepDone' = TRUE
    /\ attempts' = attempts
    /\ last' = Event("handlePasswordSubmit", "two-factor", NULL, NULL)
    /\ UNCHANGED <<error, formVars, srpAttributes, passkeySessionID, stashedMasterKey,
                   stashedEncryptedToken, stashedToken, pollVars, tickConsumed, consumed>>
\* 200 with a two-factor session only
PasswordTwoFactorOnly(c, keyAttrs) ==
    /\ Waiting(c) /\ c.kind = "password" /\ c.pc = "verify-session"
    /\ c.kek = KekOf(c.srpAttributes.srpUserID)
    /\ keyAttrs \in {NULL, KeyAttributesOf(c.srpAttributes.srpUserID)}
    /\ stashedMasterKey' = c.kek
    /\ stashedKeyAttributes' = IF keyAttrs # NULL THEN keyAttrs ELSE stashedKeyAttributes
    /\ twoFactorSessionID' = TwoFactorSessionOf(c.srpAttributes.srpUserID)
    /\ loading' = FALSE
    /\ step' = "two-factor"
    /\ inflight' = Take(c)
    /\ passwordStepDone' = TRUE
    /\ attempts' = attempts
    /\ last' = Event("handlePasswordSubmit", "two-factor", NULL, NULL)
    /\ UNCHANGED <<error, formVars, srpAttributes, passkeySessionID,
                   stashedEncryptedToken, stashedToken, pollVars, tickConsumed, consumed>>

\* what the no-second-factor branch computes from the response: an error
\* message, or the LOGIN_COMPLETE message of completeLogin
PasswordInline(c, keyAttrs, token, encryptedToken, thrown) ==
    IF keyAttrs = NULL THEN Thrown("No key attributes in SRP response")
    ELSE LET masterKey == decryptMasterKey(keyAttrs, c.kek)
         IN  IF masterKey = Fail THEN thrown
             ELSE IF token # NULL
                  THEN LoginComplete(token, c.email, keyAttrs, masterKey)
             ELSE IF encryptedToken = NULL THEN Thrown("No token in SRP response")
             ELSE LET tok == decryptToken(encryptedToken, keyAttrs, masterKey)
                  IN  IF tok = Fail THEN thrown
                      ELSE LoginComplete(tok, c.email, keyAttrs, masterKey)

\* a branch that opens the sealed token whether or not a plain one came
PasswordInlineCallsAlways(c, keyAttrs, token, encryptedToken) ==
    IF keyAttrs = NULL THEN <<>>
    ELSE IF decryptMasterKey(keyAttrs, c.kek) = Fail THEN <<"decryptMasterKey">>
    ELSE IF encryptedToken = NULL THEN <<"decryptMasterKey">>
    ELSE <<"decryptMasterKey", "decryptToken">>
\* the decryption calls the no-second-factor branch makes, in their order:
\* decryptMasterKey once key attributes are there, then decryptToken only
\* when the response has no plain token but an encrypted one
PasswordInlineCalls(c, keyAttrs, token, encryptedToken) ==
    IF keyAttrs = NULL THEN <<>>
    ELSE IF decryptMasterKey(keyAttrs, c.kek) = Fail THEN <<"decryptMasterKey">>
    ELSE IF token # NULL THEN <<"decryptMasterKey">>
    ELSE IF encryptedToken = NULL THEN <<"decryptMasterKey">>
    ELSE <<"decryptMasterKey", "decryptToken">>

\* 200 with no second factor: master key and token are decrypted inline and
\* completeLogin sends LOGIN_COMPLETE, or one of the throws reaches the catch
PasswordNoSecondFactor(c, keyAttrs, token, encryptedToken, thrown) ==
    /\ Waiting(c) /\ c.kind = "password" /\ c.pc = "verify-session"
    /\ c.kek = KekOf(c.srpAttributes.srpUserID)
    /\ keyAttrs \in {NULL, KeyAttributesOf(c.srpAttributes.srpUserID)}
    /\ token \in {NULL, PlainTokenOf(c.srpAttributes.srpUserID)}
    /\ encryptedToken \in {NULL, EncryptedTokenOf(c.srpAttributes.srpUserID)}
    /\ thrown \in CryptoThrows
    /\ LET r == PasswordInline(c, keyAttrs, token, encryptedToken, thrown)
       IN  IF r.t = "error"
           THEN PasswordCatch(c, CatchMessage(r, "Login failed"), "error")
           ELSE /\ inflight' = Take(c) (+) SetToBag({[kind |-> "password",
                                    pc |-> "handoff", msg |-> r]})
                /\ passwordStepDone' = TRUE
                /\ attempts' = attempts
                /\ last' = Called(Event("handlePasswordSubmit", "completeLogin", NULL, r),
                                   PasswordInlineCalls(c, keyAttrs, token,
                                                       encryptedToken))
                /\ UNCHANGED <<step, error, loading, formVars, stashVars, pollVars,
                               tickConsumed, consumed>>

\* LOGIN_COMPLETE answered success: completeLogin sets the step, the handler
\* clears loading
PasswordLoginCompleted(c) ==
    /\ Waiting(c) /\ c.kind = "password" /\ c.pc = "handoff"
    /\ step' = "success"
    /\ loading' = FALSE
    /\ inflight' = Take(c)
    /\ last' = Event("handlePasswordSubmit", "success", NULL, NULL)
    /\ UNCHANGED <<error, formVars, stashVars, pollVars, ghostVars>>

\* LOGIN_COMPLETE (or the SET_SETTINGS before it) answered an error or threw
PasswordLoginFailed(c) ==
    /\ Waiting(c) /\ c.kind = "password" /\ c.pc = "handoff"
    /\ PasswordCatch(c, "Login failed", "error")

\* Back of the password step
PasswordBack ==
    /\ step = "password"
    /\ password' = ""
    /\ error' = NoError
    /\ step' = "email"
    /\ last' = Event("Back", "email", NULL, NULL)
    /\ UNCHANGED <<loading, email, stashVars, pollVars, inflight, ghostVars>>

\* the master key as handlePasswordDecryptSubmit computes it: the KEK derived
\* from the password and the key attributes' salt opens the boxed master key
DirectMasterKey(keyAttrs, pw) ==
    decryptMasterKey(keyAttrs, deriveKey(pw, keyAttrs.kekSalt))

\* ---------------------------------------------------------- handleOTTSubmit
\* submit of the one-time-code form (button disabled while loading)
handleOTTSubmit ==
    /\ step = "email-ott" /\ ~loading
    /\ error' = NoError
    /\ loading' = TRUE
    /\ inflight' = Put([kind |-> "ott", pc |-> "verify-email", email |-> email])
    /\ last' = Event("handleOTTSubmit", "sent",
                     Request("/users/verify-email",
                             [email |-> Str(email), ott |-> Str("code")]), NULL)
    /\ UNCHANGED <<step, formVars, stashVars, pollVars, ghostVars>>

\* a branching that looks at the plain token before the key attributes and the
\* encrypted token
OTTBranchTokenFirst(hasPasskey, hasTOTP, keyAttrs, encryptedToken, token) ==
    IF hasPasskey /\ hasTOTP THEN "passkey-choice"
    ELSE IF hasPasskey THEN "passkey"
    ELSE IF hasTOTP THEN "two-factor"
    ELSE IF token # NULL THEN "success"
    ELSE IF keyAttrs # NULL /\ encryptedToken # NULL THEN "password-decrypt"
    ELSE "throw"
\* the branch handleOTTSubmit takes on a verification response
OTTBranch(hasPasskey, hasTOTP, keyAttrs, encryptedToken, token) ==
    IF hasPasskey /\ hasTOTP THEN "passkey-choice"
    ELSE IF hasPasskey THEN "passkey"
    ELSE IF hasTOTP THEN "two-factor"
    ELSE IF keyAttrs # NULL /\ encryptedToken # NULL THEN "password-decrypt"
    ELSE IF token # NULL THEN "success"
    ELSE "throw"

\* verify-email answered 200 with a second factor: the session ids and
\* whatever encrypted token and key attributes came along are stashed
OTTSecondFactor(c, hasPasskey, hasTOTP, keyAttrs, encryptedToken) ==
    /\ Waiting(c) /\ c.kind = "ott"
    /\ hasPasskey \/ hasTOTP
    /\ keyAttrs \in {NULL, KeyAttributesOf(c.email)}
    /\ encryptedToken \in {NULL, EncryptedTokenOf(c.email)}
    /\ passkeySessionID' = IF hasPasskey THEN PasskeySessionOf(c.email)
                           ELSE passkeySessionID
    /\ twoFactorSessionID' = IF hasTOTP THEN TwoFactorSessionOf(c.email)
                             ELSE twoFactorSessionID
    /\ stashedEncryptedToken' = IF encryptedToken # NULL THEN encryptedToken
                                ELSE stashedEncryptedToken
    /\ stashedKeyAttributes' = IF keyAttrs # NULL THEN keyAttrs
                               ELSE stashedKeyAttributes
    /\ step' = OTTBranch(hasPasskey, hasTOTP, keyAttrs, encryptedToken, NULL)
    /\ IF hasPasskey /\ ~hasTOTP
       THEN startPasskeyVerification(PasskeySessionOf(c.email), c.email)
       ELSE /\ loading' = FALSE
            /\ UNCHANGED <<error, pollVars, tickConsumed, consumed>>
    /\ inflight' = Take(c)
    /\ last' = Event("handleOTTSubmit", step', NULL, NULL)
    /\ UNCHANGED <<formVars, srpAttributes, stashedToken, stashedMasterKey,
                   passwordStepDone, attempts>>

\* verify-email answered 200 without a second factor: key attributes and
\* encrypted token -> password-decrypt; a plain token -> success; else a throw
OTTNoSecondFactor(c, keyAttrs, encryptedToken, token) ==
    /\ Waiting(c) /\ c.kind = "ott"
    /\ keyAttrs \in {NULL, KeyAttributesOf(c.email)}
    /\ encryptedToken \in {NULL, EncryptedTokenOf(c.email)}
    /\ token \in {NULL, PlainTokenOf(c.email)}
    /\ LET branch == OTTBranch(FALSE, FALSE, keyAttrs, encryptedToken, token)
       IN  /\ step' = IF branch = "throw" THEN step ELSE branch
           /\ error' = IF branch = "throw" THEN "Unexpected verification response"
                       ELSE error
           /\ stashedKeyAttributes' = IF branch = "password-decrypt" THEN keyAttrs
                                      ELSE stashedKeyAttributes
           /\ stashedEncryptedToken' = IF branch = "password-decrypt" THEN encryptedToken
                                       ELSE stashedEncryptedToken
           /\ stashedToken' = IF branch = "success" THEN token ELSE stashedToken
           /\ last' = Event("handleOTTSubmit",
                            IF branch = "throw" THEN "error" ELSE branch, NULL, NULL)
    /\ loading' = FALSE
    /\ inflight' = Take(c)
    /\ UNCHANGED <<formVars, srpAttributes, twoFactorSessionID, passkeySessionID,
                   stashedMasterKey, pollVars, ghostVars>>

\* verify-email was not ok, or the fetch failed
OTTFailed(c, msg) ==
    /\ Waiting(c) /\ c.kind = "ott"
    /\ msg = "Email verification failed"
    /\ error' = msg
    /\ loading' = FALSE
    /\ inflight' = Take(c)
    /\ last' = Event("handleOTTSubmit", "error", NULL, NULL)
    /\ UNCHANGED <<step, formVars, stashVars, pollVars, ghostVars>>

\* what the try block computes: a thrown value or the LOGIN_COMPLETE message
PasswordDecryptLocal(c, thrown) ==
    LET kek == deriveKey(c.password, c.stashedKeyAttributes.kekSalt)
        masterKey == decryptMasterKey(c.stashedKeyAttributes, kek)
    IN  IF masterKey = Fail THEN thrown
        ELSE IF c.stashedEncryptedToken = NULL
             THEN Thrown("No encrypted token available")
        ELSE LET tok == decryptToken(c.stashedEncryptedToken, c.stashedKeyAttributes,
                                     masterKey)
             IN  IF tok = Fail THEN thrown
                 ELSE LoginComplete(tok, c.email, c.stashedKeyAttributes, masterKey)

\* ------------------------------------------------ handlePasswordDecryptSubmit
\* a submit of the password-decrypt form that derives and decrypts in the turn
\* of the click, without the yield
handlePasswordDecryptSubmitNoYield ==
    /\ step = "password-decrypt" /\ ~loading
    /\ password # "" /\ stashedKeyAttributes # NULL
    /\ error' = NoError
    /\ loading' = TRUE
    /\ LET c == [kind |-> "decrypt", pc |-> "yield", password |-> password,
                 stashedKeyAttributes |-> stashedKeyAttributes,
                 stashedEncryptedToken |-> stashedEncryptedToken,
                 email |-> email]
           r == PasswordDecryptLocal(c, Thrown(DecryptionError))
       IN  IF r.t = "error"
           THEN /\ inflight' = Put(c)
                /\ last' = Event("handlePasswordDecryptSubmit", "yield", NULL, NULL)
           ELSE /\ inflight' = Put([kind |-> "decrypt", pc |-> "handoff", msg |-> r])
                /\ last' = Event("handlePasswordDecryptSubmit", "completeLogin",
                                 NULL, r)
    /\ UNCHANGED <<step, formVars, stashVars, pollVars, ghostVars>>
\* submit of the password-decrypt form; returns at once without a password or
\* stashed key attributes
handlePasswordDecryptSubmit ==
    /\ step = "password-decrypt" /\ ~loading
    /\ password # "" /\ stashedKeyAttributes # NULL
    /\ error' = NoError
    /\ loading' = TRUE
    /\ inflight' = Put([kind |-> "decrypt", pc |-> "yield", password |-> password,
                        stashedKeyAttributes |-> stashedKeyAttributes,
                        stashedEncryptedToken |-> stashedEncryptedToken,
                        email |-> email])
    /\ last' = Event("handlePasswordDecryptSubmit", "yield", NULL, NULL)
    /\ UNCHANGED <<step, formVars, stashVars, pollVars, ghostVars>>

\* the catch and finally of handlePasswordDecryptSubmit
PasswordDecryptCatch(c, e) ==
    /\ error' = CatchMessage(e, "Incorrect password")
    /\ loading' = FALSE
    /\ inflight' = Take(c)
    /\ UNCHANGED <<step, formVars, stashVars, pollVars, ghostVars>>

\* after the yield: derive the KEK from the password and the key attributes'
\* salt, decrypt master key and token, send LOGIN_COMPLETE
PasswordDecryptDerive(c, thrown) ==
    /\ Waiting(c) /\ c.kind = "decrypt" /\ c.pc = "yield"
    /\ thrown \in CryptoThrows \cup {Thrown("DerivationError")}
    /\ LET r == IF thrown = Thrown("DerivationError") THEN thrown
                ELSE PasswordDecryptLocal(c, thrown)
       IN  IF r.t = "error"
           THEN /\ PasswordDecryptCatch(c, r)
                /\ last' = Event("handlePasswordDecryptSubmit",
                                 IF r = Thrown("DerivationError") THEN "derive-failed"
                                 ELSE "decrypt-failed", NULL, NULL)
           ELSE /\ inflight' = Take(c) (+) SetToBag({[kind |-> "decrypt",
                                    pc |-> "handoff", msg |-> r]})
                /\ last' = Event("handlePasswordDecryptSubmit", "completeLogin", NULL, r)
                /\ UNCHANGED <<step, error, loading, formVars, stashVars, pollVars,
                               ghostVars>>

PasswordDecryptLoginCompleted(c) ==
    /\ Waiting(c) /\ c.kind = "decrypt" /\ c.pc = "handoff"
    /\ step' = "success"
    /\ loading' = FALSE
    /\ inflight' = Take(c)
    /\ last' = Event("handlePasswordDecryptSubmit", "success", NULL, NULL)
    /\ UNCHANGED <<error, formVars, stashVars, pollVars, ghostVars>>

PasswordDecryptLoginFailed(c) ==
    /\ Waiting(c) /\ c.kind = "decrypt" /\ c.pc = "handoff"
    /\ PasswordDecryptCatch(c, Thrown("Login failed"))
    /\ last' = Event("handlePasswordDecryptSubmit", "error", NULL, NULL)

\* ------------------------------------------------------ handleTwoFactorSubmit
\* submit of the authenticator-code form; returns at once without a session id
handleTwoFactorSubmit ==
    /\ step = "two-factor" /\ ~loading
    /\ twoFactorSessionID # NULL
    /\ error' = NoError
    /\ loading' = TRUE
    /\ inflight' = Put([kind |-> "two-factor", pc |-> "verify",
                        twoFactorSessionID |-> twoFactorSessionID,
                        stashedMasterKey |-> stashedMasterKey, email |-> email])
    /\ last' = Event("handleTwoFactorSubmit", "sent",
                     Request("/users/two-factor/verify",
                             [code |-> Str("code"), sessionID |-> twoFactorSessionID]),
                     NULL)
    /\ UNCHANGED <<step, formVars, stashVars, pollVars, ghostVars>>

TwoFactorCatch(c, e) ==
    /\ error' = CatchMessage(e, "Verification failed")
    /\ loading' = FALSE
    /\ inflight' = Take(c)
    /\ last' = Event("handleTwoFactorSubmit", "error", NULL, NULL)
    /\ UNCHANGED <<step, formVars, stashVars, pollVars, ghostVars>>

\* what the stashed-KEK branch computes
TwoFactorLocal(c, keyAttrs, encryptedToken, thrown) ==
    LET masterKey == decryptMasterKey(keyAttrs, c.stashedMasterKey)
    IN  IF masterKey = Fail THEN thrown
        ELSE LET tok == decryptToken(encryptedToken, keyAttrs, masterKey)
             IN  IF tok = Fail THEN thrown
                 ELSE LoginComplete(tok, c.email, keyAttrs, masterKey)

\* verifyTwoFactor answered 200 with the key attributes and encrypted token
\* of the session's account
TwoFactorVerified(c, thrown) ==
    /\ Waiting(c) /\ c.kind = "two-factor" /\ c.pc = "verify"
    /\ thrown \in CryptoThrows
    /\ LET keyAttrs == KeyAttributesOf(c.twoFactorSessionID.of)
           encryptedToken == EncryptedTokenOf(c.twoFactorSessionID.of)
       IN  IF c.stashedMasterKey # NULL
           THEN LET r == TwoFactorLocal(c, keyAttrs, encryptedToken, thrown)
                IN  IF r.t = "error"
                    THEN TwoFactorCatch(c, r)
                    ELSE /\ inflight' = Take(c) (+) SetToBag({[kind |-> "two-factor",
                                             pc |-> "handoff", msg |-> r]})
                         /\ last' = Event("handleTwoFactorSubmit", "completeLogin",
                                          NULL, r)
                         /\ UNCHANGED <<step, error, loading, formVars, stashVars,
                                        pollVars, ghostVars>>
           ELSE /\ stashedKeyAttributes' = keyAttrs
                /\ stashedEncryptedToken' = encryptedToken
                /\ step' = "password-decrypt"
                /\ loading' = FALSE
                /\ inflight' = Take(c)
                /\ last' = Event("handleTwoFactorSubmit", "password-decrypt", NULL, NULL)
                /\ UNCHANGED <<error, formVars, srpAttributes, twoFactorSessionID,
                               passkeySessionID, stashedToken, stashedMasterKey,
                               pollVars, ghostVars>>

\* verifyTwoFactor was not ok (wrong code, expired session) or the fetch failed
TwoFactorFailed(c, msg) ==
    /\ Waiting(c) /\ c.kind = "two-factor" /\ c.pc = "verify"
    /\ msg = "Two-factor verification failed"
    /\ TwoFactorCatch(c, Thrown(msg))

TwoFactorLoginCompleted(c) ==
    /\ Waiting(c) /\ c.kind = "two-factor" /\ c.pc = "handoff"
    /\ step' = "success"
    /\ loading' = FALSE
    /\ inflight' = Take(c)
    /\ last' = Event("handleTwoFactorSubmit", "success", NULL, NULL)
    /\ UNCHANGED <<error, formVars, stashVars, pollVars, ghostVars>>

TwoFactorLoginFailed(c) ==
    /\ Waiting(c) /\ c.kind = "two-factor" /\ c.pc = "handoff"
    /\ TwoFactorCatch(c, Thrown("Login failed"))

\* ------------------------------------------------------------ passkey-choice
\* "Use passkey"
ChoosePasskey ==
    /\ step = "passkey-choice"
    /\ passkeySessionID # NULL
    /\ step' = "passkey"
    /\ startPasskeyVerification(passkeySessionID, email)
    /\ last' = Event("ChoosePasskey", "passkey", NULL, NULL)
    /\ UNCHANGED <<formVars, stashVars, inflight, passwordStepDone, attempts>>

\* "Use authenticator app"
ChooseAuthenticator ==
    /\ step = "passkey-choice"
    /\ step' = "two-factor"
    /\ last' = Event("ChooseAuthenticator", "two-factor", NULL, NULL)
    /\ UNCHANGED <<error, loading, formVars, stashVars, pollVars, inflight, ghostVars>>

\* Back of passkey-choice
ChoiceBack ==
    /\ step = "passkey-choice"
    /\ password' = ""
    /\ error' = NoError
    /\ step' = "email"
    /\ last' = Event("Back", "email", NULL, NULL)
    /\ UNCHANGED <<loading, email, stashVars, pollVars, inflight, ghostVars>>

\* ------------------------------------------------------------- passkey step
\* continuations of status polls (timer ticks and manual checks, with the
\* completeLogin they may end in) that are waiting
Polls == {c \in Pending : c.kind \in {"tick", "manual"}}
PollCount == BagCardinality([c \in Polls |-> inflight[c]])

\* the messages checkPasskeyVerificationStatus throws: 404/410, other status
PollErrors == {"Passkey verification session expired. Please try again.",
               "Passkey status check failed"}

GetTokenRequest(sessionID) ==
    Request("/users/two-factor/passkeys/get-token", [sessionID |-> sessionID])

\* time passes; the timeout timer fires no later than PASSKEY_TIMEOUT after it
\* was set
AdvanceClock ==
    /\ pollTimeoutRef /\ timeLeft > 0
    /\ timeLeft' = Max(0, timeLeft - ClockStep)
    /\ last' = Event("AdvanceClock", "ok", NULL, NULL)
    /\ UNCHANGED <<step, error, loading, formVars, stashVars, pollIntervalRef,
                   pollTimeoutRef, passkeyTabRef, passkeyCompleteRef, timers,
                   inflight, ghostVars>>

TimeoutMessage == "Passkey verification timed out. Please try again."

\* a timeout callback that leaves the interval timer running
PasskeyTimeoutKeepsInterval ==
    /\ pollTimeoutRef /\ timeLeft = 0
    /\ pollTimeoutRef' = FALSE
    /\ timers' = [timers EXCEPT !.timeout = @ - 1]
    /\ loading' = FALSE
    /\ error' = TimeoutMessage
    /\ last' = Event("PasskeyTimeout", "timeout", NULL, NULL)
    /\ UNCHANGED <<step, formVars, stashVars, pollIntervalRef, timeLeft, passkeyTabRef,
                   passkeyCompleteRef, inflight, ghostVars>>
\* the setTimeout callback of startPasskeyPolling
PasskeyTimeout ==
    /\ pollTimeoutRef /\ timeLeft = 0
    /\ stopPasskeyPolling
    /\ loading' = FALSE
    /\ error' = TimeoutMessage
    /\ last' = Event("PasskeyTimeout", "timeout", NULL, NULL)
    /\ UNCHANGED <<step, formVars, stashVars, passkeyTabRef, passkeyCompleteRef, inflight, ghostVars>>

\* the setInterval callback up to its await: it returns at once when the guard
\* is set, else it sends the status request with the session id of its closure
PollTick ==
    /\ pollIntervalRef # NULL
    /\ PASSKEY_TIMEOUT - timeLeft >= PASSKEY_POLL_INTERVAL
    /\ ~passkeyCompleteRef
    /\ PollCount < MaxPolls
    /\ inflight' = Put([kind |-> "tick", pc |-> "poll", sid |-> pollIntervalRef.sid,
                        email |-> pollIntervalRef.email])
    /\ last' = Event("PollTick", "sent", GetTokenRequest(pollIntervalRef.sid), NULL)
    /\ UNCHANGED <<step, error, loading, formVars, stashVars, pollVars, ghostVars>>

\* the status request of a tick answered 400: still pending
TickPending(c) ==
    /\ Waiting(c) /\ c.kind = "tick" /\ c.pc = "poll"
    /\ inflight' = Take(c)
    /\ last' = Event("PollTick", "pending", NULL, NULL)
    /\ UNCHANGED <<step, error, loading, formVars, stashVars, pollVars, ghostVars>>

\* the catch of the interval callback
TickCatch(c, e) ==
    /\ stopPasskeyPolling
    /\ loading' = FALSE
    /\ error' = CatchMessage(e, "Passkey verification failed")
    /\ inflight' = Take(c)
    /\ UNCHANGED <<step, formVars, stashVars>>

\* what a verified answer leads to when a KEK is stashed
PasskeyLocal(c, kek, thrown) ==
    LET keyAttrs == KeyAttributesOf(c.sid.of)
        masterKey == decryptMasterKey(keyAttrs, kek)
    IN  IF masterKey = Fail THEN thrown
        ELSE LET tok == decryptToken(EncryptedTokenOf(c.sid.of), keyAttrs, masterKey)
             IN  IF tok = Fail THEN thrown
                 ELSE LoginComplete(tok, c.email, keyAttrs, masterKey)

\* the status request of a tick answered 200 while the guard is already set:
\* another answer was consumed, this one is dropped
TickVerifiedIgnored(c) ==
    /\ Waiting(c) /\ c.kind = "tick" /\ c.pc = "poll"
    /\ passkeyCompleteRef
    /\ inflight' = Take(c)
    /\ last' = Event("PollTick", "ignored", NULL, NULL)
    /\ UNCHANGED <<step, error, loading, formVars, stashVars, pollVars, tickConsumed,
                   consumed, passwordStepDone, attempts>>

\* the status request of a tick answered 200: past the guard, the guard
\* is set, polling stopped, the tab closed; with a stashed KEK the keys are
\* decrypted and LOGIN_COMPLETE is sent, without one the answer's key
\* attributes and encrypted token are stashed for password-decrypt
TickConsume(c, thrown) ==
    /\ Waiting(c) /\ c.kind = "tick" /\ c.pc = "poll"
    /\ thrown \in CryptoThrows
    /\ passkeyCompleteRef' = TRUE
    /\ closePasskeyTab
    /\ tickConsumed' = Bump(tickConsumed)
    /\ consumed' = Bump(consumed)
    /\ UNCHANGED <<formVars, passwordStepDone, attempts>>
    /\ IF stashedMasterKeyRef # NULL
       THEN LET r == PasskeyLocal(c, stashedMasterKeyRef, thrown)
            IN  IF r.t = "error"
                THEN /\ TickCatch(c, r)
                     /\ last' = Event("PollTick", "error", NULL, NULL)
                ELSE /\ stopPasskeyPolling
                     /\ inflight' = Take(c) (+) SetToBag({[kind |-> "tick",
                                              pc |-> "handoff", msg |-> r]})
                     /\ last' = Event("PollTick", "completeLogin", NULL, r)
                     /\ UNCHANGED <<step, error, loading, stashVars>>
       ELSE /\ stopPasskeyPolling
            /\ stashedKeyAttributes' = KeyAttributesOf(c.sid.of)
            /\ stashedEncryptedToken' = EncryptedTokenOf(c.sid.of)
            /\ loading' = FALSE
            /\ step' = "password-decrypt"
            /\ inflight' = Take(c)
            /\ last' = Event("PollTick", "password-decrypt", NULL, NULL)
            /\ UNCHANGED <<error, srpAttributes, twoFactorSessionID, passkeySessionID,
                           stashedToken, stashedMasterKey>>

\* the interval callback without its second look at the guard
TickVerifiedUnguarded(c, thrown) ==
    TickConsume(c, thrown)
TickVerified(c, thrown) ==
    /\ ~passkeyCompleteRef
    /\ TickConsume(c, thrown)

\* the status request of a tick answered 404/410 (session expired) or another
\* error status, or the fetch failed
TickFailed(c, msg) ==
    /\ Waiting(c) /\ c.kind = "tick" /\ c.pc = "poll"
    /\ msg \in PollErrors
    /\ TickCatch(c, Thrown(msg))
    /\ last' = Event("PollTick", "error", NULL, NULL)
    /\ UNCHANGED <<passkeyTabRef, passkeyCompleteRef, ghostVars>>

\* LOGIN_COMPLETE of a tick answered success
TickLoginCompleted(c) ==
    /\ Waiting(c) /\ c.kind = "tick" /\ c.pc = "handoff"
    /\ step' = "success"
    /\ loading' = FALSE
    /\ inflight' = Take(c)
    /\ last' = Event("PollTick", "success", NULL, NULL)
    /\ UNCHANGED <<error, formVars, stashVars, pollVars, ghostVars>>

TickLoginFailed(c) ==
    /\ Waiting(c) /\ c.kind = "tick" /\ c.pc = "handoff"
    /\ TickCatch(c, Thrown("Login failed"))
    /\ last' = Event("PollTick", "error", NULL, NULL)
    /\ UNCHANGED <<passkeyTabRef, passkeyCompleteRef, ghostVars>>

\* handleCheckPasskeyStatus ("Check status"): returns at once without a
\* passkey session id
handleCheckPasskeyStatus ==
    /\ step = "passkey"
    /\ passkeySessionID # NULL
    /\ PollCount < MaxPolls
    /\ error' = NoError
    /\ inflight' = Put([kind |-> "manual", pc |-> "poll", sid |-> passkeySessionID,
                        email |-> email])
    /\ last' = Event("handleCheckPasskeyStatus", "sent",
                     GetTokenRequest(passkeySessionID), NULL)
    /\ UNCHANGED <<step, loading, formVars, stashVars, pollVars, ghostVars>>

CheckPending(c) ==
    /\ Waiting(c) /\ c.kind = "manual" /\ c.pc = "poll"
    /\ error' = "Verification not yet complete. Please complete the passkey verification in the opened tab."
    /\ inflight' = Take(c)
    /\ last' = Event("handleCheckPasskeyStatus", "pending", NULL, NULL)
    /\ UNCHANGED <<step, loading, formVars, stashVars, pollVars, ghostVars>>

\* the catch of handleCheckPasskeyStatus
CheckCatch(c, e) ==
    /\ error' = CatchMessage(e, "Passkey verification failed")
    /\ inflight' = Take(c)
    /\ last' = Event("handleCheckPasskeyStatus", "error", NULL, NULL)
    /\ UNCHANGED <<step, loading, formVars, stashVars>>

\* a manual check that leaves the verification tab open on a verified answer
CheckVerifiedKeepsTab(c, thrown) ==
    /\ Waiting(c) /\ c.kind = "manual" /\ c.pc = "poll"
    /\ thrown \in CryptoThrows
    /\ stopPasskeyPolling
    /\ passkeyTabRef' = passkeyTabRef
    /\ consumed' = Bump(consumed)
    /\ UNCHANGED <<formVars, passkeyCompleteRef, tickConsumed,
                   passwordStepDone, attempts>>
    /\ IF stashedMasterKeyRef # NULL
       THEN LET r == PasskeyLocal(c, stashedMasterKeyRef, thrown)
            IN  IF r.t = "error"
                THEN CheckCatch(c, r)
                ELSE /\ inflight' = Take(c) (+) SetToBag({[kind |-> "manual",
                                              pc |-> "handoff", msg |-> r]})
                     /\ last' = Event("handleCheckPasskeyStatus", "completeLogin",
                                      NULL, r)
                     /\ UNCHANGED <<step, error, loading, stashVars>>
       ELSE /\ stashedKeyAttributes' = KeyAttributesOf(c.sid.of)
            /\ stashedEncryptedToken' = EncryptedTokenOf(c.sid.of)
            /\ loading' = FALSE
            /\ step' = "password-decrypt"
            /\ inflight' = Take(c)
            /\ last' = Event("handleCheckPasskeyStatus", "password-decrypt", NULL, NULL)
            /\ UNCHANGED <<error, srpAttributes, twoFactorSessionID, passkeySessionID,
                           stashedToken, stashedMasterKey>>
\* the status request of a manual check answered 200
CheckVerified(c, thrown) ==
    /\ Waiting(c) /\ c.kind = "manual" /\ c.pc = "poll"
    /\ thrown \in CryptoThrows
    /\ stopPasskeyPolling
    /\ closePasskeyTab
    /\ consumed' = Bump(consumed)
    /\ UNCHANGED <<formVars, passkeyCompleteRef, tickConsumed,
                   passwordStepDone, attempts>>
    /\ IF stashedMasterKeyRef # NULL
       THEN LET r == PasskeyLocal(c, stashedMasterKeyRef, thrown)
            IN  IF r.t = "error"
                THEN CheckCatch(c, r)
                ELSE /\ inflight' = Take(c) (+) SetToBag({[kind |-> "manual",
                                              pc |-> "handoff", msg |-> r]})
                     /\ last' = Event("handleCheckPasskeyStatus", "completeLogin",
                                      NULL, r)
                     /\ UNCHANGED <<step, error, loading, stashVars>>
       ELSE /\ stashedKeyAttributes' = KeyAttributesOf(c.sid.of)
            /\ stashedEncryptedToken' = EncryptedTokenOf(c.sid.of)
            /\ loading' = FALSE
            /\ step' = "password-decrypt"
            /\ inflight' = Take(c)
            /\ last' = Event("handleCheckPasskeyStatus", "password-decrypt", NULL, NULL)
            /\ UNCHANGED <<error, srpAttributes, twoFactorSessionID, passkeySessionID,
                           stashedToken, stashedMasterKey>>

CheckFailed(c, msg) ==
    /\ Waiting(c) /\ c.kind = "manual" /\ c.pc = "poll"
    /\ msg \in PollErrors
    /\ CheckCatch(c, Thrown(msg))
    /\ UNCHANGED <<pollVars, ghostVars>>

CheckLoginCompleted(c) ==
    /\ Waiting(c) /\ c.kind = "manual" /\ c.pc = "handoff"
    /\ step' = "success"
    /\ loading' = FALSE
    /\ inflight' = Take(c)
    /\ last' = Event("handleCheckPasskeyStatus", "success", NULL, NULL)
    /\ UNCHANGED <<error, formVars, stashVars, pollVars, ghostVars>>

CheckLoginFailed(c) ==
    /\ Waiting(c) /\ c.kind = "manual" /\ c.pc = "handoff"
    /\ CheckCatch(c, Thrown("Login failed"))
    /\ UNCHANGED <<pollVars, ghostVars>>

\* "Try again"
TryAgain ==
    /\ step = "passkey"
    /\ passkeySessionID # NULL
    /\ startPasskeyVerification(passkeySessionID, email)
    /\ last' = Called(Event("TryAgain", "passkey", NULL, NULL),
                       startPasskeyVerificationCalls)
    /\ UNCHANGED <<step, formVars, stashVars, inflight, passwordStepDone, attempts>>

\* "Use authenticator app instead" (shown when a two-factor session exists)
UseAuthenticatorInstead ==
    /\ step = "passkey"
    /\ twoFactorSessionID # NULL
    /\ stopPasskeyPolling
    /\ loading' = FALSE
    /\ error' = NoError
    /\ step' = "two-factor"
    /\ last' = Event("UseAuthenticatorInstead", "two-factor", NULL, NULL)
    /\ UNCHANGED <<formVars, stashVars, passkeyTabRef, passkeyCompleteRef,
                   inflight, ghostVars>>

\* Cancel of the passkey step
PasskeyCancel ==
    /\ step = "passkey"
    /\ stopPasskeyPolling
    /\ loading' = FALSE
    /\ password' = ""
    /\ error' = NoError
    /\ step' = "email"
    /\ last' = Event("Cancel", "email", NULL, NULL)
    /\ UNCHANGED <<email, stashVars, passkeyTabRef, passkeyCompleteRef,
                   inflight, ghostVars>>

AnyKeyAttrs == {NULL} \cup {KeyAttributesOf(a) : a \in Accounts}
AnyToken == {NULL} \cup {PlainTokenOf(a) : a \in Accounts}
AnyEncryptedToken == {NULL} \cup {EncryptedTokenOf(a) : a \in Accounts}

\* the steps shared by the two specifications
Step ==
    \/ handlePasswordSubmit /\ UNCHANGED <<bgVars, popupVars>>
    \/ \E c \in Pending : PasswordCreateSession(c) /\ UNCHANGED <<bgVars, popupVars>>
    \/ \E c \in Pending : PasswordVerifySession(c) /\ UNCHANGED <<bgVars, popupVars>>
    \/ \E c \in Pending, msg \in {"DerivationError", "SRP create-session failed",
                                  "SRP verify-session failed"} :
          PasswordExchangeFailed(c, msg) /\ UNCHANGED <<bgVars, popupVars>>
    \/ \E c \in Pending : PasswordIncorrect(c) /\ UNCHANGED <<bgVars, popupVars>>
    \/ \E c \in Pending : PasswordM2Mismatch(c) /\ UNCHANGED <<bgVars, popupVars>>
    \/ \E c \in Pending, ka \in AnyKeyAttrs : PasswordBothFactors(c, ka) /\ UNCHANGED <<bgVars, popupVars>>
    \/ \E c \in Pending, ka \in AnyKeyAttrs : PasswordPasskeyOnly(c, ka) /\ UNCHANGED <<bgVars, popupVars>>
    \/ \E c \in Pending, ka \in AnyKeyAttrs : PasswordTwoFactorOnly(c, ka) /\ UNCHANGED <<bgVars, popupVars>>
    \/ \E c \in Pending, ka \in AnyKeyAttrs, tok \in AnyToken, enc \in AnyEncryptedToken,
          thrown \in CryptoThrows :
          PasswordNoSecondFactor(c, ka, tok, enc, thrown) /\ UNCHANGED <<bgVars, popupVars>>
    \/ \E c \in Pending : PasswordLoginCompleted(c) /\ UNCHANGED <<bgVars, popupVars>>
    \/ \E c \in Pending : PasswordLoginFailed(c) /\ UNCHANGED <<bgVars, popupVars>>
    \/ PasswordBack /\ UNCHANGED <<bgVars, popupVars>>
    \/ handleOTTSubmit /\ UNCHANGED <<bgVars, popupVars>>
    \/ \E c \in Pending, hasPasskey \in BOOLEAN, hasTOTP \in BOOLEAN, ka \in AnyKeyAttrs,
          enc \in AnyEncryptedToken : OTTSecondFactor(c, hasPasskey, hasTOTP, ka, enc) /\ UNCHANGED <<bgVars, popupVars>>
    \/ \E c \in Pending, ka \in AnyKeyAttrs, enc \in AnyEncryptedToken, tok \in AnyToken :
          OTTNoSecondFactor(c, ka, enc, tok) /\ UNCHANGED <<bgVars, popupVars>>
    \/ \E c \in Pending : OTTFailed(c, "Email verification failed") /\ UNCHANGED <<bgVars, popupVars>>
    \/ handlePasswordDecryptSubmit /\ UNCHANGED <<bgVars, popupVars>>
    \/ \E c \in Pending, thrown \in CryptoThrows \cup {Thrown("DerivationError")} :
          PasswordDecryptDerive(c, thrown) /\ UNCHANGED <<bgVars, popupVars>>
    \/ \E c \in Pending : PasswordDecryptLoginCompleted(c) /\ UNCHANGED <<bgVars, popupVars>>
    \/ \E c \in Pending : PasswordDecryptLoginFailed(c) /\ UNCHANGED <<bgVars, popupVars>>
    \/ handleTwoFactorSubmit /\ UNCHANGED <<bgVars, popupVars>>
    \/ \E c \in Pending, thrown \in CryptoThrows : TwoFactorVerified(c, thrown) /\ UNCHANGED <<bgVars, popupVars>>
    \/ \E c \in Pending : TwoFactorFailed(c, "Two-factor verification failed") /\ UNCHANGED <<bgVars, popupVars>>
    \/ \E c \in Pending : TwoFactorLoginCompleted(c) /\ UNCHANGED <<bgVars, popupVars>>
    \/ \E c \in Pending : TwoFactorLoginFailed(c) /\ UNCHANGED <<bgVars, popupVars>>
    \/ ChoosePasskey /\ UNCHANGED <<bgVars, popupVars>>
    \/ ChooseAuthenticator /\ UNCHANGED <<bgVars, popupVars>>
    \/ ChoiceBack /\ UNCHANGED <<bgVars, popupVars>>
    \/ AdvanceClock /\ UNCHANGED <<bgVars, popupVars>>
    \/ PasskeyTimeout /\ UNCHANGED <<bgVars, popupVars>>
    \/ PollTick /\ UNCHANGED <<bgVars, popupVars>>
    \/ handleCheckPasskeyStatus /\ UNCHANGED <<bgVars, popupVars>>
    \/ \E c \in Pending : TickPending(c) /\ UNCHANGED <<bgVars, popupVars>>
    \/ \E c \in Pending : TickVerifiedIgnored(c) /\ UNCHANGED <<bgVars, popupVars>>
    \/ \E c \in Pending, thrown \in CryptoThrows : TickVerified(c, thrown) /\ UNCHANGED <<bgVars, popupVars>>
    \/ \E c \in Pending, msg \in PollErrors : TickFailed(c, msg) /\ UNCHANGED <<bgVars, popupVars>>
    \/ \E c \in Pending : TickLoginCompleted(c) /\ UNCHANGED <<bgVars, popupVars>>
    \/ \E c \in Pending : TickLoginFailed(c) /\ UNCHANGED <<bgVars, popupVars>>
    \/ \E c \in Pending : CheckPending(c) /\ UNCHANGED <<bgVars, popupVars>>
    \/ \E c \in Pending, thrown \in CryptoThrows : CheckVerified(c, thrown) /\ UNCHANGED <<bgVars, popupVars>>
    \/ \E c \in Pending, msg \in PollErrors : CheckFailed(c, msg) /\ UNCHANGED <<bgVars, popupVars>>
    \/ \E c \in Pending : CheckLoginCompleted(c) /\ UNCHANGED <<bgVars, popupVars>>
    \/ \E c \in Pending : CheckLoginFailed(c) /\ UNCHANGED <<bgVars, popupVars>>
    \/ TryAgain /\ UNCHANGED <<bgVars, popupVars>>
    \/ UseAuthenticatorInstead /\ UNCHANGED <<bgVars, popupVars>>
    \/ PasskeyCancel /\ UNCHANGED <<bgVars, popupVars>>
    \/ \E e \in Accounts : TypeEmail(e) /\ UNCHANGED <<bgVars, popupVars>>
    \/ \E p \in Passwords : TypePassword(p) /\ UNCHANGED <<bgVars, popupVars>>
    \/ \E c \in Pending : EmailAttributesPassword(c) /\ UNCHANGED <<bgVars, popupVars>>
    \/ \E c \in Pending, attrs \in {NULL} \cup {SRPAttributesOf(a, TRUE) : a \in Accounts} :
          EmailAttributesOTT(c, attrs) /\ UNCHANGED <<bgVars, popupVars>>
    \/ \E c \in Pending : EmailOTTRequested(c) /\ UNCHANGED <<bgVars, popupVars>>
    \/ \E c \in Pending, msg \in {"Failed to get SRP attributes",
                                  "Failed to request email OTT"} :
          EmailSubmitFailed(c, msg) /\ UNCHANGED <<bgVars, popupVars>>

\* one login attempt
Next ==
    \/ Step
    \/ handleEmailSubmit /\ UNCHANGED <<bgVars, popupVars>>

Spec == Init /\ [][Next]_vars

\* one login attempt in which time passes and a due timeout callback runs:
\* the event loop runs the callback of a timer that is due and not cleared
SpecFair ==
    /\ Spec
    /\ WF_vars(AdvanceClock /\ UNCHANGED <<bgVars, popupVars>>)
    /\ WF_vars(PasskeyTimeout /\ UNCHANGED <<bgVars, popupVars>>)

\* up to MaxAttempts login attempts (Back and Cancel lead back to the email
\* step)
NextAgain ==
    \/ Step
    \/ handleEmailSubmitAgain /\ UNCHANGED <<bgVars, popupVars>>

SpecAgain == Init /\ [][NextAgain]_vars

\* a second user of the login page, whose attempts follow another's in the
\* same page: the email field takes any address
OtherAccount == "b"
NextOtherAccount ==
    \/ NextAgain
    \/ TypeEmail(OtherAccount) /\ UNCHANGED <<bgVars, popupVars>>

SpecOtherAccount == Init /\ [][NextOtherAccount]_vars

\* ------------------------------------------- background script: handleMessage
\* browser.runtime.id
RuntimeId == "own"
\* message senders: the extension id they carry, how their URL starts (or
\* none) and whether they come with a tab
SenderShapes ==
    [id : {RuntimeId, "other"},
     url : {"chrome-extension://", "moz-extension://", "https://", "undefined"},
     tab : {"tab", "undefined"}]
\* the senders that send messages: an extension page, a content script in a
\* web page, a page of another extension, a sender with neither URL nor tab
Senders ==
    {[id |-> RuntimeId, url |-> "chrome-extension://", tab |-> "undefined"],
     [id |-> RuntimeId, url |-> "https://", tab |-> "tab"],
     [id |-> "other", url |-> "chrome-extension://", tab |-> "tab"],
     [id |-> RuntimeId, url |-> "undefined", tab |-> "undefined"]}

\* a sender check that does not compare the extension id
isValidSenderAnyId(sender) ==
    \/ sender.url \in {"chrome-extension://", "moz-extension://"}
    \/ sender.tab # "undefined"
\* isValidSender: the extension's own id with an extension-page URL or a tab
isValidSender(sender) ==
    /\ sender.id = RuntimeId
    /\ \/ sender.url \in {"chrome-extension://", "moz-extension://"}
       \/ sender.tab # "undefined"

\* the LOGIN_COMPLETE message the login page sends for an account
LoginCompleteOf(acct) ==
    LET masterKey == decryptMasterKey(KeyAttributesOf(acct), KekOf(acct))
    IN  LoginComplete(decryptToken(EncryptedTokenOf(acct), KeyAttributesOf(acct),
                                   masterKey),
                      acct, KeyAttributesOf(acct), masterKey)
\* the messages of the session lifecycle
Messages ==
    {[t |-> "GET_AUTH_STATE"], [t |-> "LOGOUT"], [t |-> "LOCK"]}
        \cup {[t |-> "UNLOCK", password |-> p] : p \in Passwords}
        \cup {LoginCompleteOf(a) : a \in Accounts}
        \cup {[t |-> "LOGIN", token |-> PlainTokenOf(a),
               keyAttributes |-> KeyAttributesOf(a)] : a \in Accounts}
        \cup {[t |-> "SET_SETTINGS", settings |-> st] :
                 st \in {[lockOnBrowserClose |-> TRUE],
                         [serverUrl |-> "https://api.ente.io"]}}

\* responses
Success == [success |-> TRUE]
SuccessWith(data) == [success |-> TRUE, data |-> data]
ErrorResponse(msg) == [success |-> FALSE, error |-> msg]
Unauthorized == ErrorResponse("Unauthorized")

Running == BagToSet(handlers)
\* a step of the handler h of message type t waiting at pc
At(h, t, pc) == BagIn(h, handlers) /\ h.msg.t = t /\ h.pc = pc
\* the handler h goes on to wait at pc
Goto(h, pc) == (handlers (-) SetToBag({h})) (+) SetToBag({[h EXCEPT !.pc = pc]})
\* the handler h returns
Return(h) == handlers (-) SetToBag({h})
BgEvent(op, msg, sender, response) ==
    [op |-> op, msg |-> msg, sender |-> sender, response |-> response]

\* where the handler of a message first waits
FirstAwait(m) ==
    CASE m.t = "GET_AUTH_STATE" -> "getAuthState"
      [] m.t = "LOGIN" -> "login"
      [] m.t = "LOGIN_COMPLETE" -> "login"
      [] m.t = "UNLOCK" -> "unlock"
      [] m.t = "LOGOUT" -> "logout"
      [] m.t = "LOCK" -> "lock"
      [] m.t = "SET_SETTINGS" ->
            IF "lockOnBrowserClose" \in DOMAIN m.settings THEN "getMasterKey"
            ELSE "setSettings"
      [] m.t \in {"CREATE_CODE", "UPDATE_CODE", "DELETE_CODE"} -> "getToken"

\* handleMessage up to its first await: an untrusted sender is answered
\* Unauthorized before the switch; otherwise the case of the message type
\* starts its first call
handleMessage(m, sender) ==
    /\ IF ~isValidSender(sender)
       THEN /\ bgLast' = BgEvent("handleMessage", m, sender, Unauthorized)
            /\ UNCHANGED handlers
       ELSE /\ BagCardinality(handlers) < MaxHandlers
            /\ handlers' = handlers (+) SetToBag({[msg |-> m, pc |-> FirstAwait(m),
                                                   currentKey |-> NULL]})
            /\ bgLast' = BgEvent("handleMessage", m, sender, NULL)
    /\ UNCHANGED <<session, settings, codesCache, loginVars, popupVars>>

\* a GET_AUTH_STATE that locks the session it reads
GetAuthStateLocks(h) ==
    /\ At(h, "GET_AUTH_STATE", "getAuthState")
    /\ session' = lock(session)
    /\ handlers' = Return(h)
    /\ bgLast' = BgEvent("getAuthState", h.msg, NULL, SuccessWith(getAuthState(session)))
    /\ UNCHANGED <<settings, codesCache, loginVars, popupVars>>
\* GET_AUTH_STATE
GetAuthState(h) ==
    /\ At(h, "GET_AUTH_STATE", "getAuthState")
    /\ handlers' = Return(h)
    /\ bgLast' = BgEvent("getAuthState", h.msg, NULL, SuccessWith(getAuthState(session)))
    /\ UNCHANGED <<session, settings, codesCache, loginVars, popupVars>>

\* LOGIN
Login(h) ==
    /\ At(h, "LOGIN", "login")
    /\ session' = login(session, h.msg.token, h.msg.keyAttributes, "")
    /\ handlers' = Return(h)
    /\ bgLast' = BgEvent("login", h.msg, NULL, Success)
    /\ UNCHANGED <<settings, codesCache, loginVars, popupVars>>

\* LOGIN_COMPLETE: login(token, keyAttributes, email)
LoginCompleteLogin(h) ==
    /\ At(h, "LOGIN_COMPLETE", "login")
    /\ session' = login(session, h.msg.token, h.msg.keyAttributes, h.msg.email)
    /\ handlers' = Goto(h, "setMasterKey")
    /\ bgLast' = BgEvent("login", h.msg, NULL, NULL)
    /\ UNCHANGED <<settings, codesCache, loginVars, popupVars>>

\* LOGIN_COMPLETE: authStorage.setMasterKey(masterKey), then syncCodes starts
LoginCompleteSetMasterKey(h) ==
    /\ At(h, "LOGIN_COMPLETE", "setMasterKey")
    /\ session' = setMasterKey(session, h.msg.masterKey)
    /\ handlers' = Goto(h, "syncCodes")
    /\ bgLast' = BgEvent("setMasterKey", h.msg, NULL, NULL)
    /\ UNCHANGED <<settings, codesCache, loginVars, popupVars>>

\* a code sync started by UNLOCK and not awaited
Sync == [t |-> "sync"]
\* the message types that change a code on the server
CodeMutations == {"CREATE_CODE", "UPDATE_CODE", "DELETE_CODE"}
\* the id createAuthenticatorEntity answers with
CreatedId == [id |-> "new"]
\* the message of the Error a failed getAuthCodes throws
SyncError == "Failed to fetch codes"
\* what a code mutation answers once its re-sync returned normally
Mutated(m) == IF m.t = "CREATE_CODE" THEN SuccessWith(CreatedId) ELSE Success
\* what the caller of syncCodes answers when it returns: LOGIN_COMPLETE
\* answers success whether the sync failed or not, UNLOCK did not wait, a code
\* mutation awaits the sync inside its try and answers the error it throws
SyncEvent(h, op) ==
    BgEvent(op, h.msg, NULL,
            IF h.msg.t = "LOGIN_COMPLETE" THEN Success
            ELSE IF h.msg.t \in CodeMutations
                 THEN IF op = "sync-failed" THEN ErrorResponse(SyncError)
                      ELSE Mutated(h.msg)
            ELSE NULL)

\* syncCodes up to getAuthCodes: token and master key are read; without one
\* of them it returns the empty list
SyncCodesStart(h) ==
    /\ BagIn(h, handlers) /\ h.pc = "syncCodes"
    /\ IF session.token = NULL \/ session.masterKey = NULL
       THEN /\ handlers' = Return(h)
            /\ bgLast' = SyncEvent(h, "syncCodes")
       ELSE /\ handlers' = Goto(h, "getAuthCodes")
            /\ bgLast' = BgEvent("syncCodes", h.msg, NULL, NULL)
    /\ UNCHANGED <<session, settings, codesCache, loginVars, popupVars>>

\* syncCodes after getAuthCodes: the codes are cached, or the request failed
SyncCodesFinish(h, ok) ==
    /\ BagIn(h, handlers) /\ h.pc = "getAuthCodes"
    /\ codesCache' = IF ok THEN CodesOf("a") ELSE codesCache
    /\ handlers' = Return(h)
    /\ bgLast' = SyncEvent(h, IF ok THEN "setCodes" ELSE "sync-failed")
    /\ UNCHANGED <<session, settings, loginVars, popupVars>>

\* an UNLOCK that starts the sync whether or not unlock succeeded
UnlockSyncsAlways(h) ==
    /\ At(h, "UNLOCK", "unlock")
    /\ session' = unlock(session, h.msg.password)
    /\ handlers' = Return(h) (+) SetToBag({[msg |-> Sync, pc |-> "syncCodes",
                                            currentKey |-> NULL]})
    /\ bgLast' = BgEvent("unlock", h.msg, NULL,
                         IF unlockedKey(session, h.msg.password) # Fail
                         THEN Success ELSE ErrorResponse("Invalid password"))
    /\ UNCHANGED <<settings, codesCache, loginVars, popupVars>>
\* UNLOCK: unlock(password); on success a sync is started and not awaited
Unlock(h) ==
    /\ At(h, "UNLOCK", "unlock")
    /\ session' = unlock(session, h.msg.password)
    /\ IF unlockedKey(session, h.msg.password) # Fail
       THEN /\ handlers' = Return(h) (+) SetToBag({[msg |-> Sync, pc |-> "syncCodes",
                                                    currentKey |-> NULL]})
            /\ bgLast' = BgEvent("unlock", h.msg, NULL, Success)
       ELSE /\ handlers' = Return(h)
            /\ bgLast' = BgEvent("unlock", h.msg, NULL, ErrorResponse("Invalid password"))
    /\ UNCHANGED <<settings, codesCache, loginVars, popupVars>>

\* LOGOUT
Logout(h) ==
    /\ At(h, "LOGOUT", "logout")
    /\ session' = logout(session)
    /\ handlers' = Return(h)
    /\ bgLast' = BgEvent("logout", h.msg, NULL, Success)
    /\ UNCHANGED <<settings, codesCache, loginVars, popupVars>>

\* a LOCK that discards the whole session
LockDiscardsSession(h) ==
    /\ At(h, "LOCK", "lock")
    /\ session' = logout(session)
    /\ handlers' = Return(h)
    /\ bgLast' = BgEvent("lock", h.msg, NULL, Success)
    /\ UNCHANGED <<settings, codesCache, loginVars, popupVars>>
\* LOCK
Lock(h) ==
    /\ At(h, "LOCK", "lock")
    /\ session' = lock(session)
    /\ handlers' = Return(h)
    /\ bgLast' = BgEvent("lock", h.msg, NULL, Success)
    /\ UNCHANGED <<settings, codesCache, loginVars, popupVars>>

\* SET_SETTINGS with lockOnBrowserClose: the current master key is read
SetSettingsGetMasterKey(h) ==
    /\ At(h, "SET_SETTINGS", "getMasterKey")
    /\ handlers' = (handlers (-) SetToBag({h}))
                      (+) SetToBag({[h EXCEPT !.pc = "setSettings",
                                              !.currentKey = getMasterKey(session)]})
    /\ bgLast' = BgEvent("getMasterKey", h.msg, NULL, NULL)
    /\ UNCHANGED <<session, settings, codesCache, loginVars, popupVars>>

\* SET_SETTINGS: the settings are saved; with a master key read before, the
\* key is re-saved next, otherwise the handler returns
SetSettingsSave(h) ==
    /\ At(h, "SET_SETTINGS", "setSettings")
    /\ settings' = setSettings(settings, h.msg.settings)
    /\ IF h.currentKey # NULL
       THEN /\ handlers' = Goto(h, "setMasterKey")
            /\ bgLast' = BgEvent("setSettings", h.msg, NULL, NULL)
       ELSE /\ handlers' = Return(h)
            /\ bgLast' = BgEvent("setSettings", h.msg, NULL, Success)
    /\ UNCHANGED <<session, codesCache, loginVars, popupVars>>

\* SET_SETTINGS: the master key read before is saved again
SetSettingsResave(h) ==
    /\ At(h, "SET_SETTINGS", "setMasterKey")
    /\ session' = setMasterKey(session, h.currentKey)
    /\ handlers' = Return(h)
    /\ bgLast' = BgEvent("setMasterKey", h.msg, NULL, Success)
    /\ UNCHANGED <<settings, codesCache, loginVars, popupVars>>

\* CREATE_CODE, UPDATE_CODE, DELETE_CODE: the messages, with a code's form
\* data and the id of an entity
CodeMessages ==
    {[t |-> "CREATE_CODE", code |-> "form"],
     [t |-> "UPDATE_CODE", id |-> "e1", code |-> "form"],
     [t |-> "DELETE_CODE", id |-> "e1"]}
\* createCode, updateCode, deleteCode up to the remote call: the token and,
\* but for deleteCode, the authenticator key (which needs the master key) are
\* read; without them "Not authenticated" is thrown and answered
MutationStart(h) ==
    /\ BagIn(h, handlers) /\ h.msg.t \in CodeMutations /\ h.pc = "getToken"
    /\ IF \/ session.token = NULL
          \/ h.msg.t # "DELETE_CODE" /\ session.masterKey = NULL
       THEN /\ handlers' = Return(h)
            /\ bgLast' = BgEvent("not-authenticated", h.msg, NULL,
                                 ErrorResponse("Not authenticated"))
       ELSE /\ handlers' = Goto(h, "remote")
            /\ bgLast' = BgEvent("remote", h.msg, NULL, NULL)
    /\ UNCHANGED <<session, settings, codesCache, loginVars, popupVars>>

\* the remote call of createCode, updateCode, deleteCode answered: the entity
\* was created, updated or deleted and the re-sync starts, or the call threw
\* and the handler answers the error
MutationRemote(h, ok) ==
    /\ BagIn(h, handlers) /\ h.msg.t \in CodeMutations /\ h.pc = "remote"
    /\ IF ok
       THEN /\ handlers' = Goto(h, "syncCodes")
            /\ bgLast' = BgEvent("mutated", h.msg, NULL, NULL)
       ELSE /\ handlers' = Return(h)
            /\ bgLast' = BgEvent("remote-failed", h.msg, NULL,
                                 ErrorResponse("Request failed"))
    /\ UNCHANGED <<session, settings, codesCache, loginVars, popupVars>>

\* the background script serving messages; handlers interleave at their awaits
NextBackground ==
    \/ \E m \in Messages, sender \in Senders : handleMessage(m, sender)
    \/ \E h \in Running : GetAuthState(h)
    \/ \E h \in Running : Login(h)
    \/ \E h \in Running : LoginCompleteLogin(h)
    \/ \E h \in Running : LoginCompleteSetMasterKey(h)
    \/ \E h \in Running : SyncCodesStart(h)
    \/ \E h \in Running, ok \in BOOLEAN : SyncCodesFinish(h, ok)
    \/ \E h \in Running : Unlock(h)
    \/ \E h \in Running : Logout(h)
    \/ \E h \in Running : Lock(h)
    \/ \E h \in Running : SetSettingsGetMasterKey(h)
    \/ \E h \in Running : SetSettingsSave(h)
    \/ \E h \in Running : SetSettingsResave(h)

SpecBackground == Init /\ [][NextBackground]_vars

\* the background script serving logins, locks and the messages that change
\* codes
NextCodes ==
    \/ \E m \in CodeMessages \cup {LoginCompleteOf(a) : a \in Accounts}
                              \cup {[t |-> "LOCK"]},
          sender \in Senders : handleMessage(m, sender)
    \/ \E h \in Running : LoginCompleteLogin(h)
    \/ \E h \in Running : LoginCompleteSetMasterKey(h)
    \/ \E h \in Running : Lock(h)
    \/ \E h \in Running : MutationStart(h)
    \/ \E h \in Running, ok \in BOOLEAN : MutationRemote(h, ok)
    \/ \E h \in Running : SyncCodesStart(h)
    \/ \E h \in Running, ok \in BOOLEAN : SyncCodesFinish(h, ok)

SpecCodes == Init /\ [][NextCodes]_vars

\* -------------------------------------------------------------------- popup
\* the most pin clicks followed on one list
MaxClicks == 2
\* the codes of the account as the popup lists them: one entity, pinned or not
Code(pinned) == [id |-> "e1", pinned |-> pinned]
\* what getCachedCodesFromStorage resolves with: null, or the cached list
CodeLists == {{}, {Code(FALSE)}, {Code(TRUE)}}
CachedAnswers == {NULL} \cup {[t |-> "cached", codes |-> l] : l \in CodeLists}
\* what sendMessage({type: "GET_AUTH_STATE"}) can end with: it throws, or it
\* resolves with a response that may lack data and may carry an error
AuthAnswers ==
    {[t |-> "throw"]}
      \cup {[t |-> "response", success |-> FALSE, data |-> NULL, error |-> e] :
              e \in {NULL, Str("Unauthorized sender")}}
      \cup {[t |-> "response", success |-> TRUE, data |-> d, error |-> NULL] :
              d \in {NULL} \cup [isLoggedIn : BOOLEAN, isUnlocked : BOOLEAN]}
\* what sendMessage({type: "GET_CODES"}) can end with
CodesAnswers ==
    {[t |-> "throw"], [t |-> "response", success |-> FALSE, data |-> NULL]}
      \cup {[t |-> "response", success |-> TRUE, data |-> [codes |-> l]] :
              l \in CodeLists}
\* what sendMessage({type: "UPDATE_CODE"}) can end with
UpdateAnswers ==
    {[t |-> "throw"],
     [t |-> "response", success |-> FALSE],
     [t |-> "response", success |-> TRUE]}

PopupWaiting == BagToSet(tasks)
Start(t) == tasks (+) SetToBag({t})
Finish(t) == tasks (-) SetToBag({t})
Become(t, u) == Finish(t) (+) SetToBag({u})
PopupEvent(op, answer, out) == [op |-> op, answer |-> answer, out |-> out]
\* a checkAuth(retries) call waiting: for the answer to GET_AUTH_STATE
\* ("sent"), for the 100 ms before a retry ("backoff") or for loadCodes
CheckAuth(pc, retries, cached) ==
    [kind |-> "checkAuth", pc |-> pc, retries |-> retries, cached |-> cached]
\* setCodes(list) with a list from outside the component: the clicks recorded
\* were made on the list it replaces, and are followed no further
Replaced(list) ==
    IF list = codes \/ clicks = <<>> THEN clicks
    ELSE [i \in 1..MaxClicks |-> [before |-> FALSE, outcome |-> "void"]]

\* initializePopup: getCachedCodesFromStorage resolved; cached codes, if any,
\* are shown at once, and checkAuth() sends its first GET_AUTH_STATE
initializePopup(t, cached) ==
    /\ BagIn(t, tasks) /\ t.kind = "initializePopup"
    /\ LET shown == cached # NULL /\ cached.codes # {}
       IN /\ IF shown
             THEN codes' = cached.codes /\ view' = "codes"
             ELSE UNCHANGED <<codes, view>>
          /\ tasks' = Become(t, CheckAuth("sent", 3, shown))
          /\ popLast' = PopupEvent("initializePopup", NULL,
                                   IF shown THEN "cached" ELSE "none")
    /\ authSends' = authSends + 1
    /\ UNCHANGED <<exitingPinId, popupError, clicks>>

\* a catch branch that shows nothing once the retries are used up
checkAuthThrownStaysLoading(t) ==
    /\ BagIn(t, tasks) /\ t.kind = "checkAuth" /\ t.pc = "sent"
    /\ IF t.retries > 0
       THEN /\ tasks' = Become(t, [t EXCEPT !.pc = "backoff"])
            /\ popLast' = PopupEvent("checkAuth", [t |-> "throw"], "backoff")
       ELSE /\ tasks' = Finish(t)
            /\ popLast' = PopupEvent("checkAuth", [t |-> "throw"], "gave-up")
    /\ UNCHANGED <<view, codes, exitingPinId, popupError, authSends, clicks>>

\* checkAuth: GET_AUTH_STATE threw (the catch branch)
checkAuthThrown(t) ==
    /\ BagIn(t, tasks) /\ t.kind = "checkAuth" /\ t.pc = "sent"
    /\ IF t.retries > 0
       THEN /\ tasks' = Become(t, [t EXCEPT !.pc = "backoff"])
            /\ popLast' = PopupEvent("checkAuth", [t |-> "throw"], "backoff")
            /\ UNCHANGED view
       ELSE /\ tasks' = Finish(t)
            /\ popLast' = PopupEvent("checkAuth", [t |-> "throw"], "gave-up")
            /\ view' = IF t.cached THEN view ELSE "login"
    /\ UNCHANGED <<codes, exitingPinId, popupError, authSends, clicks>>

\* checkAuth: GET_AUTH_STATE was answered
checkAuthAnswered(t, response) ==
    /\ BagIn(t, tasks) /\ t.kind = "checkAuth" /\ t.pc = "sent"
    /\ response.t = "response"
    /\ popLast' = PopupEvent("checkAuth", response,
          IF ~response.success \/ response.data = NULL
          THEN IF t.retries > 0 /\ response.error # NULL THEN "backoff"
               ELSE "login"
          ELSE IF ~response.data.isLoggedIn THEN "login"
          ELSE IF ~response.data.isUnlocked THEN "unlock"
          ELSE "loadCodes")
    /\ tasks' = CASE popLast'.out = "backoff" ->
                       Become(t, [t EXCEPT !.pc = "backoff"])
                  [] popLast'.out = "loadCodes" ->
                       Become(t, [t EXCEPT !.pc = "loadCodes"])
                  [] OTHER -> Finish(t)
    /\ view' = IF popLast'.out \in {"login", "unlock"} THEN popLast'.out ELSE view
    \* logged out or locked: the codes shown are cleared
    /\ codes' = IF /\ response.success /\ response.data # NULL
                   /\ popLast'.out \in {"login", "unlock"}
                THEN {} ELSE codes
    /\ clicks' = Replaced(codes')
    /\ UNCHANGED <<exitingPinId, popupError, authSends>>

\* checkAuth: the 100 ms have passed, checkAuth(retries - 1) sends again
checkAuthRetry(t) ==
    /\ BagIn(t, tasks) /\ t.kind = "checkAuth" /\ t.pc = "backoff"
    /\ tasks' = Become(t, [t EXCEPT !.pc = "sent", !.retries = t.retries - 1])
    /\ authSends' = authSends + 1
    /\ popLast' = PopupEvent("retry", NULL, "sent")
    /\ UNCHANGED <<view, codes, exitingPinId, popupError, clicks>>

\* loadCodes, awaited by checkAuth: GET_CODES ended; a success with data
\* replaces the list, anything else is swallowed; then setView("codes")
loadCodes(t, response) ==
    /\ BagIn(t, tasks) /\ t.kind = "checkAuth" /\ t.pc = "loadCodes"
    /\ codes' = IF response.t = "response" /\ response.success
                THEN response.data.codes ELSE codes
    /\ clicks' = Replaced(codes')
    /\ view' = "codes"
    /\ tasks' = Finish(t)
    /\ popLast' = PopupEvent("loadCodes", NULL, "codes")
    /\ UNCHANGED <<exitingPinId, popupError, authSends>>

\* the code with its pinned flag flipped
Flipped(code) == [code EXCEPT !.pinned = ~code.pinned]
\* prevCodes.map((c) => (c.id === code.id ? to : c))
Replace(prevCodes, to) == {IF c.id = to.id THEN to ELSE c : c \in prevCodes}

\* handlePinCode up to its await: nothing while a card is animating; the
\* exit animation starts, the 250 ms timer is set and UPDATE_CODE is sent
handlePinCode(code) ==
    /\ view = "codes" /\ code \in codes
    /\ exitingPinId = NULL
    /\ Len(clicks) < MaxClicks
    /\ exitingPinId' = Str(code.id)
    /\ tasks' = tasks (+) SetToBag({[kind |-> "pinTimer", code |-> code]})
                      (+) SetToBag({[kind |-> "UPDATE_CODE", code |-> code,
                                     click |-> Len(clicks) + 1]})
    /\ clicks' = Append(clicks, [before |-> code.pinned, outcome |-> "pending"])
    /\ popLast' = PopupEvent("handlePinCode", NULL, "sent")
    /\ UNCHANGED <<view, codes, popupError, authSends>>

\* the 250 ms timer of handlePinCode fires: the updated code replaces the one
\* in the list and the animation ends
PinTimer(t) ==
    /\ BagIn(t, tasks) /\ t.kind = "pinTimer"
    /\ codes' = Replace(codes, Flipped(t.code))
    /\ exitingPinId' = NULL
    /\ tasks' = Finish(t)
    /\ popLast' = PopupEvent("pinTimer", NULL, "updated")
    /\ UNCHANGED <<view, popupError, authSends, clicks>>

\* handlePinCode after its await: UPDATE_CODE ended; on a failure response or
\* a throw the code as it was at the click is put back and the error is shown
PinAnswered(t, response) ==
    /\ BagIn(t, tasks) /\ t.kind = "UPDATE_CODE"
    /\ LET ok == response.t = "response" /\ response.success
       IN /\ codes' = IF ok THEN codes ELSE Replace(codes, t.code)
          /\ popupError' = IF ok THEN popupError
                           ELSE Str("Failed to update pin status")
          /\ clicks' = IF clicks[t.click].outcome = "pending"
                       THEN [clicks EXCEPT ![t.click].outcome =
                                IF ok THEN "ok" ELSE "failed"]
                       ELSE clicks
          /\ popLast' = PopupEvent("UPDATE_CODE", response,
                                   IF ok THEN "kept" ELSE "reverted")
    /\ tasks' = Finish(t)
    /\ UNCHANGED <<view, exitingPinId, authSends>>

\* the popup from its opening on
NextPopup ==
    \/ \E t \in PopupWaiting, cached \in CachedAnswers :
          initializePopup(t, cached) /\ UNCHANGED <<loginVars, bgVars>>
    \/ \E t \in PopupWaiting : checkAuthThrown(t) /\ UNCHANGED <<loginVars, bgVars>>
    \/ \E t \in PopupWaiting, r \in AuthAnswers :
          checkAuthAnswered(t, r) /\ UNCHANGED <<loginVars, bgVars>>
    \/ \E t \in PopupWaiting : checkAuthRetry(t) /\ UNCHANGED <<loginVars, bgVars>>
    \/ \E t \in PopupWaiting, r \in CodesAnswers :
          loadCodes(t, r) /\ UNCHANGED <<loginVars, bgVars>>
    \/ \E code \in codes : handlePinCode(code) /\ UNCHANGED <<loginVars, bgVars>>
    \/ \E t \in PopupWaiting : PinTimer(t) /\ UNCHANGED <<loginVars, bgVars>>
    \/ \E t \in PopupWaiting, r \in UpdateAnswers :
          PinAnswered(t, r) /\ UNCHANGED <<loginVars, bgVars>>

SpecPopup == Init /\ [][NextPopup]_vars

\* the browser delivers every answer and fires every timer of the auth check
SpecPopupFair ==
    /\ SpecPopup
    /\ WF_vars(\E t \in PopupWaiting, cached \in CachedAnswers :
                  initializePopup(t, cached) /\ UNCHANGED <<loginVars, bgVars>>)
    /\ WF_vars(\E t \in PopupWaiting :
                  (\/ checkAuthThrown(t)
                   \/ \E r \in AuthAnswers : checkAuthAnswered(t, r)
                   \/ checkAuthRetry(t)
                   \/ \E r \in CodesAnswers : loadCodes(t, r))
                  /\ UNCHANGED <<loginVars, bgVars>>)

\* ------------------------------------------------------------------ claims
\* a status poll of the timer was sent in this step
TickSent == last'.op = "PollTick" /\ last'.out = "sent" /\ inflight' # inflight
\* a verified answer was dropped by a tick in this step
TickIgnored == last'.op = "PollTick" /\ last'.out = "ignored" /\ inflight' # inflight

\* C1: within one passkey verification (since it was last started) the
\* verified answers of timer ticks and of manual "Check status" actions are
\* consumed at most once between them: at most one of them stops the polling
\* and completes (completeLogin or the move to password-decrypt)
C1_ConsumedAtMostOnce == consumed <= 1

C3_OttTwoFactorAsksPassword ==
    (last.op = "handleTwoFactorSubmit" /\ ~passwordStepDone)
        => last.out \notin {"completeLogin", "success"}

\* C4: after the password step of the attempt succeeded, a verified
\* authenticator code never leads to password-decrypt, and the master key it
\* hands to completeLogin is the one the stashed key's password opens the
\* same key attributes to
C4_TwoFactorUsesStashedKek ==
    (last.op = "handleTwoFactorSubmit" /\ passwordStepDone)
        => /\ last.out # "password-decrypt"
           /\ last.out = "completeLogin" =>
                  /\ stashedMasterKey # NULL
                  /\ last.handoff.masterKey # Fail
                  /\ last.handoff.masterKey =
                         DirectMasterKey(last.handoff.keyAttributes, stashedMasterKey.pw)
\* the two-factor step has just handed the login over after a password step
C4_Witness ==
    /\ last.op = "handleTwoFactorSubmit" /\ last.out = "completeLogin"
    /\ passwordStepDone
    /\ stashedMasterKey = deriveKey(PasswordOf("a"), SaltOf("a"))
    /\ last.handoff.masterKey = toB64(MasterBytesOf("a"))

\* C5: a timeout timer that was set fires unless it is cleared or the
\* verification is started again; it fires PASSKEY_TIMEOUT after the
\* verification was started, and then both timers are cleared, loading is
\* cleared, the timeout error is set and the step is left as it is; and the
\* timer sends no status poll while no interval is set
C5_TimeoutStopsPolling ==
    /\ pollTimeoutRef ~> (~pollTimeoutRef \/ last.out = "passkey")
    /\ [][last'.op = "PasskeyTimeout" =>
            /\ pollTimeoutRef /\ timeLeft = 0
            /\ pollIntervalRef' = NULL /\ ~pollTimeoutRef'
            /\ ~loading'
            /\ error' = TimeoutMessage
            /\ step' = step]_vars
    /\ [][TickSent => pollIntervalRef # NULL /\ pollIntervalRef' # NULL]_vars
\* the timeout has just fired in the passkey step with no answer consumed
C5_Witness ==
    /\ last.op = "PasskeyTimeout"
    /\ step = "passkey" /\ consumed = 0
    /\ pollIntervalRef = NULL /\ ~pollTimeoutRef /\ ~loading
    /\ error = TimeoutMessage
\* C6: a failed derivation or decryption in handlePasswordDecryptSubmit shows
\* exactly "Incorrect password" and leaves the step password-decrypt
C6_DecryptFailureSaysIncorrectPassword ==
    (last.op = "handlePasswordDecryptSubmit"
     /\ last.out \in {"derive-failed", "decrypt-failed"})
        => error = "Incorrect password" /\ step = "password-decrypt"

\* C7: a 401 of verify-session sets the error to exactly "Incorrect
\* password", leaves the step and everything stashed as they are and sends no
\* LOGIN_COMPLETE
C7_Unauthorized ==
    [][(last'.op = "handlePasswordSubmit" /\ last'.out = "401") =>
          /\ error' = "Incorrect password"
          /\ step' = step
          /\ UNCHANGED stashVars
          /\ last'.handoff = NULL
          /\ \A c \in BagToSet(inflight') : c.pc = "handoff" => c \in Pending]_vars
\* the password step has just been answered 401
C7_Witness ==
    /\ last.op = "handlePasswordSubmit" /\ last.out = "401"
    /\ step = "password" /\ error = "Incorrect password"
    /\ stashedMasterKey = NULL /\ stashedKeyAttributes = NULL

\* C8: a server proof M2 that fails checkM2 resets the login to the email step
C8_M2MismatchResets ==
    (last.op = "handlePasswordSubmit" /\ last.out = "M2-mismatch") => step = "email"

\* the secrets of the password steps: a typed password, a key derived from one
Secrets ==
    {Str(p) : p \in Passwords}
        \cup {deriveKey(p, SaltOf(a)) : p \in Passwords, a \in Accounts}
\* C9: a request sent in step password or password-decrypt is create-session
\* with srpUserID and A or verify-session with the session id, srpUserID and
\* M1, and no field of it is the password or the derived KEK
C9_NoSecretOnTheWire ==
    (last.req # NULL /\ last.req.step \in {"password", "password-decrypt"})
        => /\ \A f \in DOMAIN last.req.fields : last.req.fields[f] \notin Secrets
           /\ \/ /\ last.req.endpoint = "/users/srp/create-session"
                 /\ DOMAIN last.req.fields = {"srpUserID", "srpA"}
              \/ /\ last.req.endpoint = "/users/srp/verify-session"
                 /\ DOMAIN last.req.fields = {"sessionID", "srpUserID", "srpM1"}
\* verify-session has just been sent from the password step
C9_Witness ==
    /\ last.req # NULL
    /\ last.req.step = "password"
    /\ last.req.endpoint = "/users/srp/verify-session"
    /\ password \in Passwords

\* the handlers of the steps and the outcomes in which one of them failed
Handlers ==
    {"handleEmailSubmit", "handlePasswordSubmit", "handleOTTSubmit",
     "handlePasswordDecryptSubmit", "handleTwoFactorSubmit", "PollTick",
     "handleCheckPasskeyStatus"}
Failures == {"error", "401", "M2-mismatch", "derive-failed", "decrypt-failed"}
C11_BackResetsEverything ==
    (last.op \in {"Back", "Cancel"}) =>
        /\ step = "email"
        /\ stashedMasterKey = NULL
        /\ stashedKeyAttributes = NULL
        /\ stashedEncryptedToken = NULL
        /\ twoFactorSessionID = NULL
        /\ passkeySessionID = NULL

\* C12: after Cancel of the passkey step the polling interval and the timeout
\* are cleared and the verification tab is closed
C12_CancelCleansUp ==
    (last.op = "Cancel") =>
        /\ pollIntervalRef = NULL
        /\ ~pollTimeoutRef
        /\ ~passkeyTabRef

C14_TryAgainClosesOldTab ==
    [][(passkeyTabRef /\ last'.op = "TryAgain") =>
          Precedes("closePasskeyTab", "window.open", last'.calls)]_vars

\* C15: the step becomes success only as the answer to a LOGIN_COMPLETE
\* hand-off of the same handler that was answered with success
C15_SuccessOnlyAfterHandoff ==
    [][(step' = "success" /\ step # "success") =>
          \E c \in Pending : c.pc = "handoff" /\ inflight' = Take(c)]_vars

\* C16 as stated: the password step that found no second factor and hands
\* the login off has called decryptMasterKey once and then decryptToken once
C16_DecryptsKeyThenToken ==
    (last.op = "handlePasswordSubmit" /\ last.out = "completeLogin")
        => last.calls = <<"decryptMasterKey", "decryptToken">>
\* C16: the password step that found no second factor and hands the login
\* off has called decryptMasterKey exactly once and first; decryptToken
\* follows exactly once when the token handed off was opened from the
\* encrypted token, and is not called when the response carried a plain token
C16_DecryptsKeyThenSealedToken ==
    (last.op = "handlePasswordSubmit" /\ last.out = "completeLogin")
        => /\ last.handoff.token.t \in {"plaintoken", "b64url"}
           /\ last.handoff.token.t = "plaintoken"
                 => last.calls = <<"decryptMasterKey">>
           /\ last.handoff.token.t = "b64url"
                 => last.calls = <<"decryptMasterKey", "decryptToken">>
\* the password step has handed off a token it opened from the encrypted one
C16_Witness ==
    /\ last.op = "handlePasswordSubmit" /\ last.out = "completeLogin"
    /\ last.handoff.token.t = "b64url"
    /\ last.calls = <<"decryptMasterKey", "decryptToken">>

\* the submissions of a step's form whose handler has not returned yet
Submissions(kind) == {c \in Pending : c.kind = kind}
InFlight(kind) == BagCardinality([c \in Submissions(kind) |-> inflight[c]])
\* C17: at most one submission of each step (email, password, OTT,
\* password-decrypt, two-factor) is in flight at any time
C17_OneSubmissionInFlight ==
    \A kind \in {"email", "password", "ott", "decrypt", "two-factor"} :
        InFlight(kind) <= 1

\* the senders outside the trusted set: another extension id, or neither an
\* extension-page URL nor a tab id
Untrusted(sender) ==
    \/ sender.id # RuntimeId
    \/ /\ sender.url \notin {"chrome-extension://", "moz-extension://"}
       /\ sender.tab = "undefined"
\* C18: a message of any type from a sender outside the trusted set is
\* answered {success: false, error: "Unauthorized"}, starts no handler and
\* leaves session, settings and codes cache as they are; isValidSender
\* accepts exactly the senders of the trusted set
C18_UntrustedSenderRejected ==
    [][/\ (bgLast'.op = "handleMessage" /\ Untrusted(bgLast'.sender)) =>
             /\ bgLast'.response = Unauthorized
             /\ UNCHANGED <<session, settings, codesCache, handlers>>
       /\ \A sender \in SenderShapes : isValidSender(sender) <=> ~Untrusted(sender)]_vars
\* a LOGOUT from another extension has just been rejected while logged in
C18_Witness ==
    /\ bgLast.op = "handleMessage"
    /\ bgLast.msg.t = "LOGOUT"
    /\ bgLast.sender.id # RuntimeId
    /\ bgLast.response = Unauthorized
    /\ session.token # NULL /\ session.masterKey # NULL

\* C19: LOCK on a logged-in, unlocked session discards the master key and
\* leaves token, email and key attributes; UNLOCK with the account's password
\* on a logged-in, locked session stores the master key again and leaves
\* token, email and key attributes, without a LOGIN_COMPLETE
C19_LockThenUnlock ==
    [][/\ (bgLast'.op = "lock" /\ session.token # NULL /\ session.masterKey # NULL) =>
             /\ session' = [session EXCEPT !.masterKey = NULL]
             /\ bgLast'.response = Success
       /\ \A a \in Accounts :
             (/\ bgLast'.op = "unlock"
              /\ bgLast'.msg.password = PasswordOf(a)
              /\ session.token # NULL
              /\ session.keyAttributes = KeyAttributesOf(a)
              /\ session.masterKey = NULL) =>
                /\ session' = [session EXCEPT !.masterKey = LoginCompleteOf(a).masterKey]
                /\ bgLast'.msg.t = "UNLOCK"
                /\ bgLast'.response = Success]_vars
\* the session of a completed login is unlocked by an UNLOCK just answered
C19_Witness ==
    /\ bgLast.op = "unlock" /\ bgLast.response = Success
    /\ session.email = Str("a")
    /\ session.token # NULL /\ session.masterKey # NULL

\* C20: LOGOUT discards token, key attributes and master key, and a
\* logged-out session stays logged out and locked under everything but a new
\* login (LOGIN_COMPLETE, or the LOGIN message that calls the same login)
C20_LogoutIsFinal ==
    [][/\ bgLast'.op = "logout" => session' = LoggedOut
       /\ (session = LoggedOut /\ session' # LoggedOut) =>
             bgLast'.msg.t \in {"LOGIN_COMPLETE", "LOGIN"}]_vars

\* the code syncs that are running
Syncs == {h \in Running : h.msg = Sync}
\* C21: UNLOCK of a logged-in, locked session with a password whose KEK does
\* not open the stored master key is answered {success: false, error:
\* "Invalid password"}, stores no master key and starts no code sync
C21_WrongPasswordStaysLocked ==
    [][(/\ bgLast'.op = "unlock"
        /\ session.token # NULL /\ session.keyAttributes # NULL
        /\ session.masterKey = NULL
        /\ unlockedKey(session, bgLast'.msg.password) = Fail) =>
          /\ bgLast'.response = ErrorResponse("Invalid password")
          /\ session' = session
          /\ \A h \in Syncs' : h \in Syncs /\ handlers'[h] = handlers[h]
          /\ UNCHANGED codesCache]_vars
\* a wrong password has just been refused on a logged-in, locked session
C21_Witness ==
    /\ bgLast.op = "unlock"
    /\ bgLast.msg.password # PasswordOf("a")
    /\ bgLast.response = ErrorResponse("Invalid password")
    /\ session.keyAttributes = KeyAttributesOf("a")
    /\ session.token # NULL /\ session.masterKey = NULL

\* C22: GET_AUTH_STATE is a pure read: it answers {isLoggedIn, isUnlocked,
\* email} of the session as it is, changes neither session nor settings nor
\* codes cache, and two answers with nothing but the receipt of messages
\* between them are the same
C22_GetAuthStateIsPure ==
    [][/\ bgLast'.op = "getAuthState" =>
             /\ bgLast'.response =
                   SuccessWith([isLoggedIn |-> session.token # NULL,
                                isUnlocked |-> session.masterKey # NULL,
                                email |-> session.email])
             /\ UNCHANGED <<session, settings, codesCache>>
       /\ (bgLast.op = "getAuthState" /\ bgLast'.op = "getAuthState") =>
             bgLast'.response = bgLast.response
       /\ (bgLast.op = "getAuthState" /\ bgLast'.op = "handleMessage") =>
             UNCHANGED <<session, settings, codesCache>>]_vars
\* GET_AUTH_STATE has just been answered for a logged-in, unlocked session
C22_Witness ==
    /\ bgLast.op = "getAuthState"
    /\ bgLast.response.data.isLoggedIn /\ bgLast.response.data.isUnlocked
    /\ session.token # NULL /\ session.masterKey # NULL

\* C23: success is terminal: once the step is success no later event changes
\* it
C23_SuccessIsTerminal ==
    [][step = "success" => step' = "success"]_vars

\* C24: an answered attribute lookup of the email step either finds
\* attributes that do not force email MFA, sets the step to password and
\* sends no requestEmailOTT, or (no attributes, or email MFA forced) sends
\* requestEmailOTT once and waits for it; the step becomes email-ott when that
\* request succeeded, and in no other way
C24_EmailSubmitBranches ==
    [][/\ (last'.op = "handleEmailSubmit" /\ last'.out = "password") =>
             /\ srpAttributes' # NULL
             /\ ~srpAttributes'.isEmailMFAEnabled
             /\ step' = "password"
             /\ last'.req = NULL
             /\ \E c \in Pending : c.pc = "attributes" /\ inflight' = Take(c)
       /\ (last'.op = "handleEmailSubmit" /\ last'.out = "requestEmailOTT") =>
             /\ srpAttributes' = srpAttributes \/ srpAttributes'.isEmailMFAEnabled
             /\ step' = step
             /\ last'.req.endpoint = "/users/ott"
             /\ \E c \in Pending :
                   /\ c.pc = "attributes"
                   /\ inflight' = Take(c) (+) SetToBag({[c EXCEPT !.pc = "ott"]})
       /\ (last'.op = "handleEmailSubmit" /\ last'.out = "email-ott") =>
             /\ step' = "email-ott"
             /\ last'.req = NULL
             /\ \E c \in Pending : c.pc = "ott" /\ inflight' = Take(c)
       /\ (step' = "email-ott" /\ step # "email-ott") =>
             (last'.op = "handleEmailSubmit" /\ last'.out = "email-ott")
       /\ (last'.req # NULL /\ last'.req.endpoint = "/users/ott") =>
             (last'.op = "handleEmailSubmit" /\ last'.out = "requestEmailOTT")]_vars
\* the email step has reached email-ott for an account whose attributes force
\* email MFA
C24_Witness ==
    /\ last.op = "handleEmailSubmit" /\ last.out = "email-ott"
    /\ step = "email-ott"
    /\ srpAttributes # NULL /\ srpAttributes.isEmailMFAEnabled

\* the password step has just ended its successful exchange in branch `out`,
\* returning the continuation c
PasswordBranch(out, c) ==
    /\ last'.op = "handlePasswordSubmit" /\ last'.out = out
    /\ c.kind = "password" /\ c.pc = "verify-session"
    /\ Waiting(c)
    /\ \/ inflight' = Take(c)
       \/ \E d \in Pending' : d.pc = "handoff" /\ inflight' = Take(c) (+) SetToBag({d})
\* C25: after a successful exchange the password step goes by the sessions of
\* the response: both sessions stored and passkey-choice; the passkey session
\* alone stored and passkey with the verification started on it; the
\* two-factor session alone stored and two-factor; with neither, inline
\* decryption and the hand-off; the KEK is stashed in the first three branches
\* and not in the last; the step leaves password for these steps in no other way
C25_PasswordSubmitBranches ==
    [][/\ \A c \in Pending :
             /\ PasswordBranch("passkey-choice", c) =>
                   /\ step' = "passkey-choice"
                   /\ passkeySessionID' = PasskeySessionOf(c.srpAttributes.srpUserID)
                   /\ twoFactorSessionID' = TwoFactorSessionOf(c.srpAttributes.srpUserID)
                   /\ stashedMasterKey' = c.kek
                   /\ UNCHANGED <<pollIntervalRef, pollTimeoutRef, passkeyTabRef>>
             /\ PasswordBranch("passkey", c) =>
                   /\ step' = "passkey"
                   /\ passkeySessionID' = PasskeySessionOf(c.srpAttributes.srpUserID)
                   /\ twoFactorSessionID' = twoFactorSessionID
                   /\ stashedMasterKey' = c.kek
                   /\ pollIntervalRef' # NULL
                   /\ pollIntervalRef'.sid = passkeySessionID'
                   /\ pollTimeoutRef' /\ passkeyTabRef' /\ loading'
             /\ PasswordBranch("two-factor", c) =>
                   /\ step' = "two-factor"
                   /\ twoFactorSessionID' = TwoFactorSessionOf(c.srpAttributes.srpUserID)
                   /\ passkeySessionID' = passkeySessionID
                   /\ stashedMasterKey' = c.kek
                   /\ UNCHANGED <<pollIntervalRef, pollTimeoutRef, passkeyTabRef>>
             /\ PasswordBranch("completeLogin", c) =>
                   /\ step' = step
                   /\ UNCHANGED stashVars
                   /\ last'.handoff # NULL
                   /\ last'.handoff.masterKey =
                         decryptMasterKey(last'.handoff.keyAttributes, c.kek)
       /\ (step = "password" /\ step' \in {"passkey-choice", "passkey", "two-factor"}) =>
             (last'.op = "handlePasswordSubmit" /\ last'.out = step')
       /\ (last'.op = "handlePasswordSubmit" /\ last'.out = "success") =>
             \E c \in Pending : c.kind = "password" /\ c.pc = "handoff"
                                /\ inflight' = Take(c) /\ step' = "success"]_vars
\* the password step has just gone to the passkey step on a passkey session
\* alone, with the verification started
C25_Witness ==
    /\ last.op = "handlePasswordSubmit" /\ last.out = "passkey"
    /\ step = "passkey"
    /\ passkeySessionID # NULL /\ twoFactorSessionID = NULL
    /\ stashedMasterKey # NULL
    /\ pollIntervalRef # NULL

\* the one-time-code submissions waiting for their verification response
OTTPending == {c \in Pending : c.kind = "ott"}
\* handleOTTSubmit resumes the continuation c on a 200 response carrying these
\* fields
OTTResponse(c, hasPasskey, hasTOTP, keyAttrs, encryptedToken, token) ==
    IF hasPasskey \/ hasTOTP
    THEN OTTSecondFactor(c, hasPasskey, hasTOTP, keyAttrs, encryptedToken)
    ELSE OTTNoSecondFactor(c, keyAttrs, encryptedToken, token)
\* C26: a successful one-time-code verification goes to passkey-choice with
\* both sessions, to passkey with the verification started with the passkey
\* session alone, to two-factor with the two-factor session alone, to
\* password-decrypt with no session and key attributes plus encrypted token, to
\* success with no decryption call on a plain token alone, and otherwise leaves
\* the step alone and shows an error
C26_OTTSubmitBranches ==
    [][\A c \in OTTPending :
         \A hasPasskey \in BOOLEAN, hasTOTP \in BOOLEAN,
            keyAttrs \in {NULL, KeyAttributesOf(c.email)},
            encryptedToken \in {NULL, EncryptedTokenOf(c.email)},
            token \in {NULL, PlainTokenOf(c.email)} :
            OTTResponse(c, hasPasskey, hasTOTP, keyAttrs, encryptedToken, token) =>
               LET pair == keyAttrs # NULL /\ encryptedToken # NULL
               IN  /\ (hasPasskey /\ hasTOTP) =>
                         /\ step' = "passkey-choice"
                         /\ passkeySessionID' = PasskeySessionOf(c.email)
                         /\ twoFactorSessionID' = TwoFactorSessionOf(c.email)
                         /\ UNCHANGED <<pollIntervalRef, pollTimeoutRef, passkeyTabRef>>
                   /\ (hasPasskey /\ ~hasTOTP) =>
                         /\ step' = "passkey"
                         /\ passkeySessionID' = PasskeySessionOf(c.email)
                         /\ pollIntervalRef' # NULL
                         /\ pollIntervalRef'.sid = passkeySessionID'
                         /\ pollTimeoutRef' /\ passkeyTabRef' /\ loading'
                   /\ (~hasPasskey /\ hasTOTP) =>
                         /\ step' = "two-factor"
                         /\ twoFactorSessionID' = TwoFactorSessionOf(c.email)
                         /\ UNCHANGED <<pollIntervalRef, pollTimeoutRef, passkeyTabRef>>
                   /\ (~hasPasskey /\ ~hasTOTP /\ pair) =>
                         /\ step' = "password-decrypt"
                         /\ stashedKeyAttributes' = keyAttrs
                         /\ stashedEncryptedToken' = encryptedToken
                   /\ (~hasPasskey /\ ~hasTOTP /\ ~pair /\ token # NULL) =>
                         /\ step' = "success"
                         /\ stashedToken' = token
                         /\ last'.calls = <<>> /\ last'.handoff = NULL
                         /\ UNCHANGED <<stashedMasterKey, stashedKeyAttributes,
                                        stashedEncryptedToken>>
                   /\ (~hasPasskey /\ ~hasTOTP /\ ~pair /\ token = NULL) =>
                         /\ step = "email-ott" /\ step' = "email-ott"
                         /\ error' = "Unexpected verification response"
                         /\ ~loading'
                         /\ UNCHANGED stashVars]_vars
\* a verification response with a plain token alone has just moved the
\* one-time-code step to success
C26_Witness ==
    /\ last.op = "handleOTTSubmit" /\ last.out = "success"
    /\ step = "success"
    /\ stashedToken # NULL
    /\ stashedKeyAttributes = NULL \/ stashedEncryptedToken = NULL

\* the status requests of the passkey step waiting for their answer
PollsWaiting == {c \in Polls : c.pc = "poll"}
\* the hand-offs of the passkey step waiting for the background's answer
PollHandoffs == {c \in Polls : c.pc = "handoff"}
\* polling is stopped and the verification tab is closed
PollingStopped == pollIntervalRef = NULL /\ ~pollTimeoutRef /\ ~passkeyTabRef
\* C27: in the passkey step a pending answer of a tick or a manual check leaves
\* the step; a verified answer with a stashed KEK whose decryption succeeds
\* hands the master key and token it decrypted to completeLogin, whose success
\* sets the step success; a verified answer without a stashed KEK stashes the
\* answer's key attributes and encrypted token and sets the step
\* password-decrypt; on both verified answers polling is stopped and the tab
\* closed no later than the step changes
C27_PasskeyPollOutcomes ==
    [][step = "passkey" =>
         /\ \A c \in PollsWaiting :
               /\ (TickPending(c) \/ CheckPending(c)) => step' = "passkey"
               /\ \A thrown \in CryptoThrows :
                     (TickVerified(c, thrown) \/ CheckVerified(c, thrown)) =>
                        LET keyAttrs == KeyAttributesOf(c.sid.of)
                            encToken == EncryptedTokenOf(c.sid.of)
                            masterKey == decryptMasterKey(keyAttrs, stashedMasterKey)
                            token == decryptToken(encToken, keyAttrs, masterKey)
                        IN  /\ PollingStopped'
                            /\ (stashedMasterKey # NULL /\ masterKey # Fail
                                /\ token # Fail) =>
                                  /\ last'.out = "completeLogin"
                                  /\ last'.handoff =
                                        LoginComplete(token, c.email, keyAttrs, masterKey)
                                  /\ \E d \in PollHandoffs' :
                                        /\ d.msg = last'.handoff
                                        /\ inflight' = Take(c) (+) SetToBag({d})
                                  /\ step' = "passkey"
                            /\ stashedMasterKey = NULL =>
                                  /\ step' = "password-decrypt"
                                  /\ stashedKeyAttributes' = keyAttrs
                                  /\ stashedEncryptedToken' = encToken
                                  /\ ~loading'
         /\ \A c \in PollHandoffs :
               (TickLoginCompleted(c) \/ CheckLoginCompleted(c)) => step' = "success"
         /\ step' \in {"success", "password-decrypt"} =>
               /\ last'.op \in {"PollTick", "handleCheckPasskeyStatus"}
               /\ last'.out = step']_vars
\* a manual check of the passkey step has just been answered verified with a
\* stashed KEK and handed the decrypted keys to completeLogin
C27_Witness ==
    /\ last.op = "handleCheckPasskeyStatus" /\ last.out = "completeLogin"
    /\ step = "passkey"
    /\ stashedMasterKey # NULL
    /\ PollingStopped
    /\ PollHandoffs # {}

\* C28: every change of the step is a transition of the table of the login
\* state machine or a return to email
C28_StepChangesFollowTable ==
    [][LET TableTransitions ==
             {<<"email", "password">>, <<"email", "email-ott">>,
              <<"password", "passkey-choice">>, <<"password", "passkey">>,
              <<"password", "two-factor">>, <<"password", "success">>,
              <<"email-ott", "passkey-choice">>, <<"email-ott", "passkey">>,
              <<"email-ott", "two-factor">>, <<"email-ott", "password-decrypt">>,
              <<"email-ott", "success">>,
              <<"password-decrypt", "success">>,
              <<"two-factor", "success">>, <<"two-factor", "password-decrypt">>,
              <<"passkey-choice", "passkey">>, <<"passkey-choice", "two-factor">>,
              <<"passkey", "success">>, <<"passkey", "password-decrypt">>}
       IN  step' # step =>
              \/ step' = "email"
              \/ <<step, step'>> \in TableTransitions]_vars

\* the key attributes and encrypted token the server supplies for the account
\* of the attempt are stashed
PairStashed ==
    /\ stashedKeyAttributes = KeyAttributesOf(email)
    /\ stashedEncryptedToken = EncryptedTokenOf(email)
\* C29: the stashed server-supplied key attributes and encrypted token of the
\* attempt are neither replaced by other values nor dropped by any step before
\* the attempt succeeds or returns to the email step
C29_StashedPairCarriedForward ==
    [][(PairStashed /\ step \notin {"email", "success"} /\ step' # "email") =>
          UNCHANGED <<stashedKeyAttributes, stashedEncryptedToken>>]_vars

\* the message checkPasskeyVerificationStatus throws on 404 and 410
SessionExpired == "Passkey verification session expired. Please try again."
\* C30: a poll that fails with the session-expired message leaves polling
\* stopped and the message shown, and a retry that follows does not start
\* polling with the session id that expired
C30_ExpiredSessionNotRetried ==
    [][/\ (/\ last'.op \in {"PollTick", "handleCheckPasskeyStatus"}
           /\ last'.out = "error"
           /\ error' = SessionExpired) =>
              pollIntervalRef' = NULL /\ ~pollTimeoutRef'
       /\ (/\ step = "passkey" /\ error = SessionExpired
           /\ last'.op = "TryAgain") =>
              \/ pollIntervalRef' = NULL
              \/ pollIntervalRef'.sid # passkeySessionID]_vars

\* the password submissions at the point pc of verifySRP
SrpAt(pc) == {c \in Submissions("password") : c.pc = pc}
\* the request the step just taken sent to the endpoint, if it sent one
Sent(endpoint) == last'.req # NULL /\ last'.req.endpoint = endpoint
\* C31: verifySRP sends create-session once, for a submission that has sent
\* nothing yet; it sends verify-session once, for a submission whose
\* create-session was answered; the verification response reaches the handler
\* only for a submission whose verify-session was answered and whose server
\* proof M2 verified: on an M2 mismatch nothing of the response is used
C31_SrpRequestsOrdered ==
    [][/\ Sent("/users/srp/create-session") =>
             \E c \in SrpAt("yield") :
                \E d \in SrpAt("create-session")' :
                   /\ inflight' = Take(c) (+) SetToBag({d})
                   /\ d.srpAttributes = c.srpAttributes
       /\ Sent("/users/srp/verify-session") =>
             \E c \in SrpAt("create-session") :
                inflight' = Take(c) (+) SetToBag({[c EXCEPT !.pc = "verify-session"]})
       /\ (/\ last'.op = "handlePasswordSubmit"
           /\ last'.out \in {"passkey-choice", "passkey", "two-factor",
                             "completeLogin"}) =>
             \E c \in SrpAt("verify-session") :
                /\ c.kek = KekOf(c.srpAttributes.srpUserID)
                /\ \/ inflight' = Take(c)
                   \/ \E d \in SrpAt("handoff")' : inflight' = Take(c) (+) SetToBag({d})
       /\ (last'.op = "handlePasswordSubmit" /\ last'.out = "M2-mismatch") =>
             /\ \E c \in SrpAt("verify-session") : inflight' = Take(c)
             /\ last'.handoff = NULL /\ last'.req = NULL
             /\ UNCHANGED <<step, stashVars>>]_vars
\* verify-session has just been sent for a submission whose create-session
\* was answered
C31_Witness ==
    /\ last.op = "handlePasswordSubmit" /\ last.out = "verify-session"
    /\ last.req # NULL /\ last.req.endpoint = "/users/srp/verify-session"
    /\ SrpAt("verify-session") # {}
    /\ SrpAt("create-session") = {} /\ SrpAt("yield") = {}

\* the copies of the continuation c waiting in the bag b
Copies(c, b) == IF BagIn(c, b) THEN b[c] ELSE 0
\* C32: the submit of the password and of the password-decrypt form sets
\* loading and suspends at the yield without deriving anything; a key derived
\* by either handler, and what is decrypted with it, comes from a submission
\* that was suspended at the yield when the deriving turn began
C32_YieldBeforeDeriveKey ==
    [][/\ (/\ last'.op \in {"handlePasswordSubmit", "handlePasswordDecryptSubmit"}
           /\ InFlight("password") + InFlight("decrypt")
                 < InFlight("password")' + InFlight("decrypt")') =>
             /\ loading'
             /\ last'.out = "yield"
             /\ last'.req = NULL /\ last'.handoff = NULL
             /\ \E d \in Pending' : d.pc = "yield" /\ inflight' = Put(d)
       /\ \A d \in SrpAt("create-session")' :
             Copies(d, inflight') > Copies(d, inflight) =>
                \E c \in SrpAt("yield") :
                   /\ d.kek = deriveKey(c.password, c.srpAttributes.kekSalt)
                   /\ inflight' = Take(c) (+) SetToBag({d})
       /\ (/\ last'.op = "handlePasswordDecryptSubmit"
           /\ last'.out \in {"completeLogin", "decrypt-failed", "derive-failed"}) =>
             \E c \in Submissions("decrypt") :
                /\ c.pc = "yield"
                /\ last'.out = "completeLogin" =>
                      /\ last'.handoff.masterKey =
                            DirectMasterKey(c.stashedKeyAttributes, c.password)
                      /\ \E d \in Submissions("decrypt")' :
                            d.pc = "handoff" /\ inflight' = Take(c) (+) SetToBag({d})
                /\ last'.out # "completeLogin" => inflight' = Take(c)]_vars
\* the password-decrypt handler has just derived the key and decrypted, in a
\* turn after the one of the submit
C32_Witness ==
    /\ last.op = "handlePasswordDecryptSubmit" /\ last.out = "completeLogin"
    /\ step = "password-decrypt"
    /\ \E d \in Submissions("decrypt") : d.pc = "handoff"
    /\ \A d \in Submissions("decrypt") : d.pc # "yield"

\* C34: a status answer of a tick or a manual check that arrives right after
\* the passkey step was left by Cancel or by "Use authenticator app instead"
\* changes neither the step nor the stash and hands nothing to completeLogin
C34_LatePollAnswerIgnored ==
    [][(/\ last.op \in {"Cancel", "UseAuthenticatorInstead"}
        /\ step \in {"email", "two-factor"}
        /\ last'.op \in {"PollTick", "handleCheckPasskeyStatus"}
        /\ \E c \in PollsWaiting : ~BagIn(c, inflight') \/ inflight'[c] < inflight[c]) =>
          /\ UNCHANGED <<step, stashVars>>
          /\ last'.handoff = NULL]_vars

\* C35: a stashed KEK is used to decrypt in the two-factor or passkey step
\* only when the password step has derived it since the most recent email
\* submission
C35_KekOfCurrentAttempt ==
    (/\ last.op \in {"handleTwoFactorSubmit", "PollTick", "handleCheckPasskeyStatus"}
     /\ last.out = "completeLogin")
        => passwordStepDone

\* C36: in every state of the session store, also between the awaits of the
\* handlers, a stored master key comes with a stored token and stored key
\* attributes
C36_UnlockedImpliesLoggedIn ==
    session.masterKey # NULL =>
        (session.token # NULL /\ session.keyAttributes # NULL)

\* C37: a master key that is absent from the store (after LOCK or LOGOUT)
\* comes back only through an UNLOCK or a LOGIN_COMPLETE; no step of
\* SET_SETTINGS stores one
C37_MasterKeyAbsentUntilUnlock ==
    [][(session.masterKey = NULL /\ session'.masterKey # NULL) =>
          bgLast'.msg.t \in {"UNLOCK", "LOGIN_COMPLETE"}]_vars

\* C38: while no master key is stored (after a LOCK or LOGOUT has completed)
\* no step writes codes into the codes cache; the cache changes then only by
\* being emptied
C38_NoCacheWriteWhileLocked ==
    [][(session.masterKey = NULL /\ codesCache' # codesCache) =>
          codesCache' = NULL]_vars

\* C39: a CREATE_CODE, UPDATE_CODE or DELETE_CODE whose remote call succeeded
\* is not answered {success: false}, whatever the re-sync that follows does
C39_MutationFailureOnlyIfNotMutated ==
    [][\A h \in Running :
          (/\ h.msg.t \in CodeMutations
           /\ h.pc \in {"syncCodes", "getAuthCodes"}
           /\ handlers' = Return(h)
           /\ bgLast'.msg = h.msg /\ bgLast'.response # NULL) =>
             bgLast'.response.success]_vars

\* initializePopup or its checkAuth has not returned yet
AuthCheckRunning ==
    \E t \in PopupWaiting : t.kind \in {"initializePopup", "checkAuth"}
\* the answers to GET_AUTH_STATE that report a failure
ErrorAnswers ==
    {r \in AuthAnswers : r.t = "response" /\ ~r.success /\ r.error # NULL}

\* C33: the popup's auth check on open ends: it sends GET_AUTH_STATE at most 4
\* times, each time but the first 100 ms after a throw or an error response,
\* and when it has ended the view is login, unlock or codes
C33_AuthCheckTerminates ==
    /\ [](authSends <= 4)
    /\ [][authSends' # authSends =>
            /\ authSends' = authSends + 1
            /\ authSends = 0 \/ \E t \in PopupWaiting :
                                   t.kind = "checkAuth" /\ t.pc = "backoff"]_vars
    /\ [][popLast'.out = "backoff" =>
            \/ popLast'.answer = [t |-> "throw"]
            \/ popLast'.answer \in ErrorAnswers]_vars
    /\ [](~AuthCheckRunning => view \in {"login", "unlock", "codes"})
    /\ <>[](~AuthCheckRunning)
\* the fourth GET_AUTH_STATE threw as well and, with no cached codes, the
\* login view is shown
C33_Witness ==
    /\ ~AuthCheckRunning /\ authSends = 4
    /\ popLast.out = "gave-up" /\ view = "login"

\* the handlePinCode continuations still waiting
PinTasks == {t \in PopupWaiting : t.kind \in {"pinTimer", "UPDATE_CODE"}}
\* C40: once the timers and requests of the pin clicks are over and every
\* UPDATE_CODE failed or threw, the code is pinned as it was before the first
\* click
C40_FailedPinReverted ==
    (/\ clicks # <<>> /\ PinTasks = {}
     /\ \A i \in DOMAIN clicks : clicks[i].outcome = "failed") =>
       \A c \in codes : c.pinned = clicks[1].before
====
